---- MODULE Spec2Model ----
(***************************************************************************)
(* git-doc-hook: the glob matcher and the rule engine (core/config.py),    *)
(* the document mutation engine and the config file updater (updaters.py), *)
(* the analyzers (analyzers/), the pending-state store (core/state.py),    *)
(* the MemOS clients (memos/client.py) and the commands check-pre-push and *)
(* update (cli.py).                                                        *)
(*                                                                         *)
(* Text is modelled character by character: a string is a sequence of      *)
(* one-character strings, a file's content is the sequence of its lines    *)
(* (content.split("\n"); "\n".join(lines) is the inverse), so that          *)
(* strip, lower, startswith, substring search and list slicing are         *)
(* computed the way the Python code computes them.                         *)
(*                                                                         *)
(* Several specifications share the module:                                *)
(*   Spec         a DocumentUpdater, a start file, then up to MaxCalls     *)
(*                mutation calls (append_table_row, append_record,         *)
(*                update_section, prepend_content);                        *)
(*   SpecGlob     a (pattern, path) pair, then one call of glob_match;     *)
(*   SpecRules    a list of configured rules and a path, then one call of  *)
(*                Config.get_rules_for_pattern;                            *)
(*   SpecAnalyze  a file (path, content) and a commit message, then        *)
(*                get_analyzer and the analyzer's analyze;                 *)
(*   SpecMetrics  a ComplexityMetrics, then is_high_complexity;            *)
(*   SpecState    two StateManagers and up to MaxStateOps of their         *)
(*                operations;                                              *)
(*   SpecTable    append_table_row on files whose section has a table;     *)
(*   SpecClinerules  a .clinerules file, then up to MaxRuleCalls calls of  *)
(*                update_clinerules;                                       *)
(*   SpecMemos    a MemOSClient and its offline cache: add_record and      *)
(*                sync_offline_cache, whose loop takes a step at a time;   *)
(*   SpecStateFile  StateManager calls on state files that hold an empty   *)
(*                JSON object or no JSON;                                  *)
(*   SpecCli      the commands check-pre-push and update, and StateManager *)
(*                calls in between.                                        *)
(* Each leaves the others' variables at their idle values.                 *)
(*                                                                         *)
(* Operators take their intermediate values as parameters rather than      *)
(* through LET: the Python locals (lines, section_index, table_start, ...) *)
(* are the parameters of AppendInFile, AppendInSection, AppendToTable,     *)
(* UpdatedLines and the like.                                              *)
(***************************************************************************)
EXTENDS Naturals, Integers, Sequences, FiniteSets, TLC

VARIABLES
    \* ---- glob matcher (SpecGlob) ----
    pattern,     \* glob_match's pattern argument
    path,        \* glob_match's path argument
    gpc,         \* "start" before the call of glob_match, "done" after it
    matched,     \* what glob_match returned (FALSE before the call)
    \* ---- document mutation engine (Spec) ----
    dry_run,     \* DocumentUpdater.dry_run
    backup,      \* DocumentUpdater.backup
    perm,        \* what the filesystem lets the process write
    parentDir,   \* does target_file.parent exist
    target,      \* target file: Absent or its lines
    bak,         \* <target>.bak: Absent or its lines
    before,      \* the filesystem right before the last call
    last,        \* the last call: operation, arguments, outcome
    prev,        \* the call before the last one
    ncalls,      \* number of calls made
    \* ---- rule engine (SpecRules) ----
    rules,       \* Config.rules: the configured rules, in configuration order
    rpath,       \* get_rules_for_pattern's argument
    rpc,         \* "start" before the call, "done" after it
    matching,    \* what get_rules_for_pattern returned
    \* ---- analyzers (SpecAnalyze) ----
    file_path,   \* the path handed to get_analyzer and to analyze
    file,        \* the file at file_path: Absent or its lines
    commit_message,  \* context["commit_message"] (<<>> when there is none)
    keywords,    \* Config.keywords: the configured keyword lists
    apc,         \* "start", "selected" (get_analyzer returned), "analyzed"
    analyzer,    \* language of the analyzer get_analyzer returned, or "TypeError"
    result,      \* the AnalysisResult analyze returned
    \* ---- ComplexityMetrics (SpecMetrics) ----
    metrics,     \* a ComplexityMetrics
    mpc,         \* "start" before is_high_complexity is read, "done" after
    high,        \* what is_high_complexity gave
    \* ---- StateManager (SpecState) ----
    managers,    \* the two StateManagers: the project each was created for
    state_files, \* pending.json of every state directory
    now,         \* the clock time.time() reads
    sbefore,     \* state_files before the last call
    slast,       \* the last call: its operation and its manager
    nops,        \* number of calls made
    sprev,       \* the call before the last one
    unpushed,    \* the diff of the first project against its push target
    \* ---- ConfigFileUpdater (SpecClinerules) ----
    cr_dry_run,  \* ConfigFileUpdater.dry_run
    cr_file,     \* the file .clinerules of the project
    cr_before,   \* cr_file before the last call
    cr_last,     \* the last call of update_clinerules: arguments and result
    cr_prev,     \* the call before it
    cr_calls,    \* number of calls made
    \* ---- MemOSClient (SpecMemos) ----
    mc_client,   \* which client, its enabled flag, whether MemOS answers
    mc_cache,    \* MemOSClient._offline_cache
    mc_file,     \* the records in the cache file (_cache_file)
    mc_sync,     \* the running or finished call of sync_offline_cache
    mc_calls     \* number of calls made

globVars == <<pattern, path, gpc, matched>>
docVars == <<dry_run, backup, perm, parentDir, target, bak, before, last, prev, ncalls>>
rulesVars == <<rules, rpath, rpc, matching>>
analyzeVars == <<file_path, file, commit_message, keywords, apc, analyzer, result>>
metricsVars == <<metrics, mpc, high>>
stateVars == <<managers, state_files, now, sbefore, slast, nops, sprev, unpushed>>
clinerulesVars == <<cr_dry_run, cr_file, cr_before, cr_last, cr_prev, cr_calls>>
memosVars == <<mc_client, mc_cache, mc_file, mc_sync, mc_calls>>
vars == <<pattern, path, gpc, matched,
          dry_run, backup, perm, parentDir, target, bak, before, last, prev, ncalls,
          rules, rpath, rpc, matching,
          file_path, file, commit_message, keywords, apc, analyzer, result,
          metrics, mpc, high,
          managers, state_files, now, sbefore, slast, nops, sprev, unpushed,
          cr_dry_run, cr_file, cr_before, cr_last, cr_prev, cr_calls,
          mc_client, mc_cache, mc_file, mc_sync, mc_calls>>

\* ------------------------------------------------------------------------
\* Bounds of the model
\* ------------------------------------------------------------------------
MaxPatLen == 6
MaxPathLen == 3
MaxLines == 2
MaxCalls == 2
MaxRules == 3
MaxSrcLines == 3
MaxNest == 5
MaxStateOps == 3        \* calls of StateManager operations
MaxRuleCalls == 2       \* calls of ConfigFileUpdater.update_clinerules
MaxMemosCalls == 3      \* calls of MemOSClient operations
MaxCache == 4           \* records the offline cache can hold

\* ------------------------------------------------------------------------
\* Sequence helpers (Python list and str primitives)
\* ------------------------------------------------------------------------
Min(a, b) == IF a <= b THEN a ELSE b
Max(a, b) == IF a >= b THEN a ELSE b

\* All sequences over S of length 0..n
SeqsUpTo(S, n) == UNION {[1..k -> S] : k \in 0..n}

\* s[i:j] = x (list slice assignment): i is clamped to len(s), j to i..len(s)
SliceAssign(s, i, j, x) ==
    SubSeq(s, 1, Min(i, Len(s))) \o x
        \o SubSeq(s, Max(Min(j, Len(s)), Min(i, Len(s))) + 1, Len(s))

\* str.startswith
StartsWith(s, p) == Len(s) >= Len(p) /\ SubSeq(s, 1, Len(p)) = p

\* `sub in s` for strings
Contains(s, sub) ==
    \E i \in 0..(Len(s) - Len(sub)) : SubSeq(s, i + 1, i + Len(sub)) = sub

\* str.replace(old, new): leftmost, non-overlapping occurrences
RECURSIVE Replace(_, _, _)
Replace(s, old, new) ==
    IF Len(s) < Len(old) \/ Len(old) = 0 THEN s
    ELSE IF SubSeq(s, 1, Len(old)) = old
         THEN new \o Replace(SubSeq(s, Len(old) + 1, Len(s)), old, new)
         ELSE <<s[1]>> \o Replace(Tail(s), old, new)

\* ------------------------------------------------------------------------
\* glob_match  (core/config.py)
\*
\* A regular expression is the sequence of its source fragments: a literal
\* character, an escaped character ("\\*", "\\?", "\\."), or one of the
\* fragments str.replace puts in.  The pattern alphabet holds no backslash,
\* so every occurrence str.replace finds lies on fragment boundaries.
\* ------------------------------------------------------------------------
EscStar == "\\*"
EscQuest == "\\?"
EscDot == "\\."
ReDotStar == ".*"
ReNonSepStar == "[^/]*"
ReAny == "."
ReOptDirs == "(?:/.*)?"

\* re.escape, one character ("/" and letters are left alone by Python >= 3.7)
EscapeChar(c) ==
    CASE c = "*" -> EscStar
      [] c = "?" -> EscQuest
      [] c = "." -> EscDot
      [] OTHER -> c

re_escape(s) == [i \in 1..Len(s) |-> EscapeChar(s[i])]

\* Does the fragment f match the single character c
LitMatches(f, c) ==
    CASE f = EscStar -> c = "*"
      [] f = EscQuest -> c = "?"
      [] f = EscDot -> c = "."
      [] f = ReAny -> c # "\n"
      [] OTHER -> f = c

\* re.match("^" + regex + "$", s) is not None, for s without a newline
RECURSIVE re_fullmatch(_, _)
re_fullmatch(re, s) ==
    IF re = <<>> THEN s = <<>>
    ELSE LET f == Head(re)
             rest == Tail(re)
             n == Len(s)
         IN CASE f = ReDotStar ->
                   \E k \in 0..n : re_fullmatch(rest, SubSeq(s, k + 1, n))
              [] f = ReNonSepStar ->
                   \E k \in 0..n :
                       /\ \A i \in 1..k : s[i] # "/"
                       /\ re_fullmatch(rest, SubSeq(s, k + 1, n))
              [] f = ReOptDirs ->
                   \/ re_fullmatch(rest, s)
                   \/ /\ n >= 1
                      /\ s[1] = "/"
                      /\ \E k \in 1..n : re_fullmatch(rest, SubSeq(s, k + 1, n))
              [] OTHER ->
                   /\ n >= 1
                   /\ LitMatches(f, s[1])
                   /\ re_fullmatch(rest, Tail(s))

\* lines 34-38: the pattern starts with "**/"
glob_leading(pat) ==
    LET rest == SubSeq(pat, 4, Len(pat))
        escaped == Replace(Replace(re_escape(rest), <<EscStar>>, <<ReNonSepStar>>),
                           <<EscQuest>>, <<ReAny>>)
    IN <<ReDotStar>> \o escaped

\* glob_standard with "*" translated like "**": a single star that crosses "/"
glob_standard_star_any(pat) ==
    Replace(Replace(Replace(re_escape(pat),
                            <<"/", EscStar, EscStar, "/">>, <<ReOptDirs>>),
                    <<EscStar>>, <<ReDotStar>>),
            <<EscQuest>>, <<ReAny>>)

\* lines 41-53: every other pattern
glob_standard(pat) ==
    LET r0 == re_escape(pat)
        r1 == Replace(r0, <<"/", EscStar, EscStar, "/">>, <<ReOptDirs>>)
        r2 == Replace(r1, <<EscStar, EscStar>>, <<ReDotStar>>)
        r3 == Replace(r2, <<EscStar>>, <<ReNonSepStar>>)
    IN Replace(r3, <<EscQuest>>, <<ReAny>>)

glob_regex(pat) ==
    IF StartsWith(pat, <<"*", "*", "/">>) THEN glob_leading(pat) ELSE glob_standard(pat)

glob_match(pat, p) == re_fullmatch(glob_regex(pat), p)

\* ------------------------------------------------------------------------
\* Rule engine: Config.get_rules_for_pattern.  A rule is a record with its
\* "pattern" (rule.get("pattern", ""), so <<>> for a rule that has none)
\* and the "target" of its action.
\* ------------------------------------------------------------------------
\* the for loop of lines 320-323, at the rule of index i
RECURSIVE RulesLoop(_, _, _, _)
RulesLoop(rs, p, i, acc) ==
    IF i > Len(rs) THEN acc
    ELSE RulesLoop(rs, p, i + 1,
                   IF glob_match(rs[i].pattern, p) THEN Append(acc, rs[i]) ELSE acc)

get_rules_for_pattern(rs, p) == RulesLoop(rs, p, 1, <<>>)

\* ------------------------------------------------------------------------
\* Python str primitives on character sequences
\* ------------------------------------------------------------------------
\* upper-case letter |-> lower-case letter
LowerOf ==
    [c \in {"A", "B", "C", "D", "E", "F", "G", "H", "I", "J", "K", "L", "M",
            "N", "O", "P", "Q", "R", "S", "T", "U", "V", "W", "X", "Y", "Z"} |->
        CASE c = "A" -> "a" [] c = "B" -> "b" [] c = "C" -> "c" [] c = "D" -> "d"
          [] c = "E" -> "e" [] c = "F" -> "f" [] c = "G" -> "g" [] c = "H" -> "h"
          [] c = "I" -> "i" [] c = "J" -> "j" [] c = "K" -> "k" [] c = "L" -> "l"
          [] c = "M" -> "m" [] c = "N" -> "n" [] c = "O" -> "o" [] c = "P" -> "p"
          [] c = "Q" -> "q" [] c = "R" -> "r" [] c = "S" -> "s" [] c = "T" -> "t"
          [] c = "U" -> "u" [] c = "V" -> "v" [] c = "W" -> "w" [] c = "X" -> "x"
          [] c = "Y" -> "y" [] c = "Z" -> "z"]

LowerChar(c) == IF c \in DOMAIN LowerOf THEN LowerOf[c] ELSE c

\* str.lower
Lower(s) == [i \in 1..Len(s) |-> LowerChar(s[i])]

IsSpace(c) == c \in {" ", "\t"}

\* str.lstrip / str.rstrip / str.strip of one line
RECURSIVE LStrip(_)
LStrip(s) == IF s # <<>> /\ IsSpace(s[1]) THEN LStrip(Tail(s)) ELSE s

RECURSIVE RStrip(_)
RStrip(s) ==
    IF s # <<>> /\ IsSpace(s[Len(s)]) THEN RStrip(SubSeq(s, 1, Len(s) - 1)) ELSE s

Strip(s) == LStrip(RStrip(s))

\* sep.join(cells)
RECURSIVE Join(_, _)
Join(cells, sep) ==
    IF cells = <<>> THEN <<>>
    ELSE IF Len(cells) = 1 THEN cells[1]
    ELSE cells[1] \o sep \o Join(Tail(cells), sep)

\* s.split(c) for a one-character separator
RECURSIVE SplitAt(_, _, _)
SplitAt(s, c, cur) ==
    IF s = <<>> THEN <<cur>>
    ELSE IF s[1] = c THEN <<cur>> \o SplitAt(Tail(s), c, <<>>)
    ELSE SplitAt(Tail(s), c, Append(cur, s[1]))

Split(s, c) == SplitAt(s, c, <<>>)

\* existing.rstrip() on a whole file, the file given by its lines: the
\* trailing blank lines go (a newline is whitespace), then the trailing
\* whitespace of the last line left
RECURSIVE RStripLines(_)
RStripLines(lines) ==
    IF Len(lines) > 1 /\ Strip(lines[Len(lines)]) = <<>>
    THEN RStripLines(SubSeq(lines, 1, Len(lines) - 1))
    ELSE SubSeq(lines, 1, Len(lines) - 1) \o <<RStrip(lines[Len(lines)])>>

\* ------------------------------------------------------------------------
\* The filesystem as DocumentUpdater sees it
\* ------------------------------------------------------------------------
\* A file: does it exist, and its lines (its text split at "\n")
Absent == [exists |-> FALSE, lines |-> <<>>]
File(lines) == [exists |-> TRUE, lines |-> lines]

\* Optional[int] None
NoneIdx == -1

\* perm: "rw"      every write succeeds
\*       "file_ro" the target file is read-only (and so is a copy2 of it,
\*                 which copies the mode bits): opening it for writing raises
\*       "dir_ro"  the directory is read-only: creating a file or a
\*                 directory in it raises, overwriting a file does not
Perms == {"rw", "file_ro", "dir_ro"}

\* The state one call runs in: the filesystem, whether an exception is
\* propagating (every later statement is then skipped) and whether
\* target_file.write_text overwrote an existing target.
Ctx(d, t, b) == [dir |-> d, target |-> t, bak |-> b, raised |-> FALSE, overwrote |-> FALSE]

\* target_file.parent.mkdir(parents=True, exist_ok=True)
mkdir(c) ==
    IF c.raised \/ c.dir THEN c
    ELSE IF perm = "dir_ro" THEN [c EXCEPT !.raised = TRUE]
    ELSE [c EXCEPT !.dir = TRUE]

\* target_file.write_text(text), text given by its lines
write_text(c, lines) ==
    IF c.raised THEN c
    ELSE IF ~c.dir THEN [c EXCEPT !.raised = TRUE]
    ELSE IF c.target.exists
         THEN IF perm = "file_ro" THEN [c EXCEPT !.raised = TRUE]
              ELSE [c EXCEPT !.target = File(lines), !.overwrote = TRUE]
         ELSE IF perm = "dir_ro" THEN [c EXCEPT !.raised = TRUE]
              ELSE [c EXCEPT !.target = File(lines)]

\* shutil.copy2(target_file, backup_path)
copy2(c) ==
    IF c.raised THEN c
    ELSE IF (~c.bak.exists /\ perm = "dir_ro") \/ (c.bak.exists /\ perm = "file_ro")
         THEN [c EXCEPT !.raised = TRUE]
         ELSE [c EXCEPT !.bak = c.target]

\* DocumentUpdater._backup_file
_backup_file(c) ==
    IF c.raised THEN c
    ELSE IF ~backup \/ ~c.target.exists THEN c
    ELSE copy2(c)

\* UpdateResult (target_file and backup_path are left out: the first is the
\* argument, the second is never set)
UpdateResult(success, action, message) ==
    [success |-> success, action |-> action, message |-> message]

Returned(c, res) == [ctx |-> c, res |-> res]

\* _write_file with the backup taken after the target is written
_write_file_backup_late(c, lines, action) ==
    IF dry_run
    THEN Returned(c, UpdateResult(TRUE, action, "Dry run - no changes made"))
    ELSE Returned(_backup_file(write_text(c, lines)),
                  UpdateResult(TRUE, action, "File updated successfully"))

\* DocumentUpdater._write_file
_write_file(c, lines, action) ==
    IF dry_run
    THEN Returned(c, UpdateResult(TRUE, action, "Dry run - no changes made"))
    ELSE Returned(write_text(_backup_file(c), lines),
                  UpdateResult(TRUE, action, "File updated successfully"))

\* ------------------------------------------------------------------------
\* Text given by its lines
\* ------------------------------------------------------------------------
\* "\n"
NL == <<<<>>, <<>>>>

\* a + b for two texts: the last line of a and the first of b become one line
ConcatText(a, b) ==
    SubSeq(a, 1, Len(a) - 1) \o <<a[Len(a)] \o b[1]>> \o Tail(b)

\* ------------------------------------------------------------------------
\* Markdown helpers of DocumentUpdater
\* ------------------------------------------------------------------------
\* row_data is a dict in insertion order: a sequence of <<key, value>>
Keys(row_data) == [i \in 1..Len(row_data) |-> row_data[i][1]]

\* row_data.get(h, "")
Get(row_data, h) ==
    IF \E i \in 1..Len(row_data) : row_data[i][1] = h
    THEN row_data[CHOOSE i \in 1..Len(row_data) : row_data[i][1] = h][2]
    ELSE <<>>

\* the least index of a set of indices, None when the set is empty: where a
\* `for i in range(...)` loop returns at its first hit
FirstOrNone(S) == IF S = {} THEN NoneIdx ELSE CHOOSE i \in S : \A j \in S : i <= j

\* line.lower() == pattern.lower() for one of the three section_patterns,
\* line being the stripped line
MatchesSection(line, section) ==
    \/ Lower(line) = Lower(<<"#", "#", " ">> \o section)
    \/ Lower(line) = Lower(<<"#", "#", "#", " ">> \o section)
    \/ Lower(line) = Lower(<<"#", "#", "#", "#", " ">> \o section)

_find_section_index(lines, section, start) ==
    FirstOrNone({i \in start..(Len(lines) - 1) : MatchesSection(Strip(lines[i + 1]), section)})

_find_next_section_index(lines, start) ==
    FirstOrNone({i \in start..(Len(lines) - 1) : StartsWith(lines[i + 1], <<"#", "#">>)})

\* the loop of _find_table_after_section stops at index stop (None: it ran
\* to the end), at a table row or at a header
TableAt(lines, stop) ==
    IF stop # NoneIdx /\ StartsWith(Strip(lines[stop + 1]), <<"|">>) THEN stop ELSE NoneIdx

_find_table_after_section(lines, section_index) ==
    TableAt(lines,
            FirstOrNone({i \in (section_index + 1)..(Len(lines) - 1) :
                            \/ StartsWith(Strip(lines[i + 1]), <<"|">>)
                            \/ StartsWith(Strip(lines[i + 1]), <<"#", "#">>)}))

OrLen(lines, i) == IF i = NoneIdx THEN Len(lines) ELSE i

_find_table_end(lines, table_start) ==
    OrLen(lines,
          FirstOrNone({i \in (table_start + 1)..(Len(lines) - 1) :
                          ~StartsWith(Strip(lines[i + 1]), <<"|">>)}))

\* keep the stripped cells that are neither empty nor made of dashes only
KeepCell(cell) == cell # <<>> /\ ~(\A i \in 1..Len(cell) : cell[i] = "-")

RECURSIVE KeepCells(_)
KeepCells(cells) ==
    IF cells = <<>> THEN <<>>
    ELSE IF KeepCell(Strip(cells[1]))
         THEN <<Strip(cells[1])>> \o KeepCells(Tail(cells))
         ELSE KeepCells(Tail(cells))

_parse_table_row(row) == KeepCells(Split(row, "|"))

_format_table_row(cells) == <<"|", " ">> \o Join(cells, <<" ", "|", " ">>) \o <<" ", "|">>

_format_table_separator(num_cols) ==
    _format_table_row([i \in 1..num_cols |-> <<"-", "-", "-">>])

\* str(list(row_data.values())[0]) if row_data else ""
FirstValue(row_data) == IF row_data # <<>> THEN row_data[1][2] ELSE <<>>

_row_exists(lines, table_start, table_end, row_data) ==
    \E i \in table_start..(Min(table_end, Len(lines)) - 1) :
        Contains(lines[i + 1], FirstValue(row_data))

\* table_headers or list(row_data.keys()): None and [] both give the keys
HeadersOr(table_headers, row_data) ==
    IF table_headers # <<>> THEN table_headers ELSE Keys(row_data)

\* the header row, the separator row and the data row of a new table
NewTable(headers, row_data) ==
    << _format_table_row(headers),
       _format_table_separator(Len(headers)),
       _format_table_row([i \in 1..Len(headers) |-> Get(row_data, headers[i])]) >>

\* _create_table_file writing the title and the table without the section
\* header
NewTableFile_without_section(section, headers, row_data) ==
    << <<"#", " ", "D", "o", "c", "u", "m", "e", "n", "t", "a", "t", "i", "o", "n">>, <<>> >> \o NewTable(headers, row_data) \o << <<>> >>

\* the lines _create_table_file writes
NewTableFile(section, headers, row_data) ==
    << <<"#", " ", "D", "o", "c", "u", "m", "e", "n", "t", "a", "t", "i", "o", "n">>,
       <<>>,
       <<"#", "#", " ">> \o section,
       <<>> >> \o NewTable(headers, row_data) \o << <<>> >>

_create_table_file(c, section, row_data, table_headers) ==
    Returned(IF ~dry_run
             THEN write_text(mkdir(c),
                             NewTableFile(section, HeadersOr(table_headers, row_data), row_data))
             ELSE mkdir(c),
             UpdateResult(TRUE, "append_table_row", "Created new file with table"))

_append_table_section(c, lines, section, row_data, table_headers) ==
    _write_file(c,
                lines \o << <<>>, <<"#", "#", " ">> \o section, <<>> >>
                      \o NewTable(HeadersOr(table_headers, row_data), row_data),
                "append_table_row")

_insert_table_after_section(c, lines, section_index, row_data, table_headers) ==
    _write_file(c,
                SliceAssign(lines, section_index + 2, section_index + 2,
                            << <<>> >> \o NewTable(HeadersOr(table_headers, row_data), row_data)),
                "append_table_row")

\* ------------------------------------------------------------------------
\* The four mutations of DocumentUpdater.  Each takes the context c it runs
\* in and gives back [ctx, res]: the context it leaves and the UpdateResult
\* it returns (res is not delivered when ctx.raised).
\* ------------------------------------------------------------------------
\* lines 91-118: the section has a table
RowLine(headers, row_data) ==
    <<"|", " ">> \o Join([i \in 1..Len(headers) |-> Get(row_data, headers[i])],
                         <<" ", "|", " ">>) \o <<" ", "|">>

InsertIndex(lines, table_start) ==
    IF table_start + 1 < Len(lines) /\ StartsWith(lines[table_start + 2], <<"|">>)
    THEN table_start + 2
    ELSE table_start + 1

AppendToTable(c, lines, table_start, table_end, headers, row_data) ==
    IF _row_exists(lines, table_start, table_end, row_data)
    THEN Returned(c, UpdateResult(TRUE, "append_table_row", "Row already exists in table"))
    ELSE _write_file(c,
                     SliceAssign(lines, InsertIndex(lines, table_start),
                                 InsertIndex(lines, table_start),
                                 <<RowLine(headers, row_data)>>),
                     "append_table_row")

\* lines 85-93: the section is at section_index, its table (if any) at table_start
AppendInSection(c, lines, section_index, table_start, row_data, table_headers) ==
    IF table_start = NoneIdx
    THEN _insert_table_after_section(c, lines, section_index, row_data, table_headers)
    ELSE AppendToTable(c, lines, table_start, _find_table_end(lines, table_start),
                       _parse_table_row(lines[table_start + 1]), row_data)

\* lines 79-89: the file exists, section_index is where its section is
AppendInFile(c, lines, section_index, section, row_data, table_headers) ==
    IF section_index = NoneIdx
    THEN _append_table_section(c, lines, section, row_data, table_headers)
    ELSE AppendInSection(c, lines, section_index,
                         _find_table_after_section(lines, section_index),
                         row_data, table_headers)

append_table_row(c, section, row_data, table_headers) ==
    IF ~c.target.exists
    THEN _create_table_file(c, section, row_data, table_headers)
    ELSE AppendInFile(c, c.target.lines, _find_section_index(c.target.lines, section, 0),
                      section, row_data, table_headers)

\* separator.split("\n") for the default separator "\n\n---\n\n"
DefaultSeparator == << <<>>, <<>>, <<"-", "-", "-">>, <<>>, <<>> >>

append_record(c, content, separator) ==
    IF ~c.target.exists
    THEN Returned(IF ~dry_run THEN write_text(mkdir(c), ConcatText(content, NL)) ELSE mkdir(c),
                  UpdateResult(TRUE, "append_record", "Created new file with content"))
    ELSE Returned(IF ~dry_run
                  THEN write_text(_backup_file(c),
                                  ConcatText(ConcatText(RStripLines(c.target.lines), separator),
                                             content))
                  ELSE c,
                  UpdateResult(TRUE, "append_record", "Appended {len(content)} characters"))

\* replace_subsection = <<>> stands for None (and for "", falsy as well)
\* lines 241-246: replace the whole section
ReplaceSection(lines, section_index, next_section, new_content) ==
    IF next_section # NoneIdx
    THEN SliceAssign(lines, section_index + 2, next_section, new_content)
    ELSE SliceAssign(lines, section_index + 2, Len(lines), new_content)

\* lines 221-226: replace the subsection found at subsection_index
ReplaceSubsection(lines, subsection_index, next_section, new_content) ==
    IF next_section # NoneIdx
    THEN SliceAssign(lines, subsection_index + 1, next_section, new_content)
    ELSE SliceAssign(lines, subsection_index + 1, Len(lines), new_content)

\* lines 229-238: the subsection is new, it goes in front of the next section
AppendSubsection(lines, next_section, replace_subsection, new_content) ==
    SliceAssign(lines, OrLen(lines, next_section), OrLen(lines, next_section),
                << <<>>, <<"#", "#", "#", " ">> \o replace_subsection, <<>> >> \o new_content)

\* lines 217-238
UpdateSubsection(lines, section_index, subsection_index, replace_subsection, new_content) ==
    IF subsection_index # NoneIdx
    THEN ReplaceSubsection(lines, subsection_index,
                           _find_next_section_index(lines, subsection_index + 1), new_content)
    ELSE AppendSubsection(lines, _find_next_section_index(lines, section_index + 1),
                          replace_subsection, new_content)

\* lines 206-246: the lines update_section hands to _write_file
UpdatedLines(lines, section_index, section, new_content, replace_subsection) ==
    IF section_index = NoneIdx
    THEN lines \o << <<>>, <<"#", "#", " ">> \o section, <<>> >> \o new_content
    ELSE IF replace_subsection # <<>>
    THEN UpdateSubsection(lines, section_index,
                          _find_section_index(lines, replace_subsection, section_index + 1),
                          replace_subsection, new_content)
    ELSE ReplaceSection(lines, section_index,
                        _find_next_section_index(lines, section_index + 1), new_content)

\* f"## {section}\n\n{new_content}\n"
NewSectionFile(section, new_content) ==
    ConcatText(ConcatText(ConcatText(ConcatText(
        << <<"#", "#", " ">> \o section >>, NL), NL), new_content), NL)

\* replace_subsection = <<>> stands for None (and for "", falsy as well)
update_section(c, section, new_content, replace_subsection) ==
    IF ~c.target.exists
    THEN Returned(IF ~dry_run
                  THEN write_text(mkdir(c), NewSectionFile(section, new_content))
                  ELSE mkdir(c),
                  UpdateResult(TRUE, "update_section", "Created new file with section"))
    ELSE _write_file(c,
                     UpdatedLines(c.target.lines,
                                  _find_section_index(c.target.lines, section, 0),
                                  section, new_content, replace_subsection),
                     "update_section")

\* the first line that is neither blank nor a header; 0 when there is none
OrZero(i) == IF i = NoneIdx THEN 0 ELSE i

FirstContent(lines) ==
    OrZero(FirstOrNone({i \in 0..(Len(lines) - 1) :
                           Strip(lines[i + 1]) # <<>> /\ ~StartsWith(lines[i + 1], <<"#">>)}))

\* lines 282-294
Prepended(existing, content, after_header) ==
    IF after_header
    THEN SliceAssign(existing, FirstContent(existing), FirstContent(existing),
                     << <<>> >> \o content)
    ELSE ConcatText(ConcatText(content, NL), existing)

prepend_content(c, content, after_header) ==
    IF ~c.target.exists
    THEN Returned(IF ~dry_run THEN write_text(mkdir(c), ConcatText(content, NL)) ELSE mkdir(c),
                  UpdateResult(TRUE, "prepend_content", "Created new file"))
    ELSE Returned(IF ~dry_run
                  THEN write_text(_backup_file(c), Prepended(c.target.lines, content, after_header))
                  ELSE c,
                  UpdateResult(TRUE, "prepend_content", "Prepended {len(content)} characters"))

\* ------------------------------------------------------------------------
\* Analyzers (analyzers/): selection of the analyzer
\* ------------------------------------------------------------------------
\* str.rfind(c) + 1: the last position of c in s, 0 when there is none
RFind(s, c) ==
    IF \E i \in 1..Len(s) : s[i] = c
    THEN CHOOSE i \in 1..Len(s) : s[i] = c /\ \A j \in (i + 1)..Len(s) : s[j] # c
    ELSE 0

\* Path(file_path).parts, for a relative path without "." and ".." parts
PathParts(p) == Split(p, "/")

\* Path(file_path).name
PathName(p) == PathParts(p)[Len(PathParts(p))]

\* PurePath.suffix of a file name: name[i:] when 0 < i < len(name) - 1
SuffixOf(name, i) == IF 1 < i /\ i < Len(name) THEN SubSeq(name, i, Len(name)) ELSE <<>>

PathSuffix(p) == SuffixOf(PathName(p), RFind(PathName(p), "."))

PythonExtensions == {<<".", "p", "y">>}
JavaScriptExtensions == {<<".", "j", "s">>, <<".", "j", "s", "x">>, <<".", "t", "s">>, <<".", "t", "s", "x">>, <<".", "m", "j", "s">>, <<".", "c", "j", "s">>}
BashExtensions == {<<".", "s", "h">>, <<".", "b", "a", "s", "h">>, <<".", "z", "s", "h">>}

PythonCanAnalyze(p) == Lower(PathSuffix(p)) \in PythonExtensions

JavaScriptCanAnalyze(p) == Lower(PathSuffix(p)) \in JavaScriptExtensions

\* path.open().readline() of a readable file: its first line
HasShebang(first_line) ==
    /\ StartsWith(first_line, <<"#", "!">>)
    /\ \E shell \in {<<"b", "a", "s", "h">>, <<"s", "h">>, <<"z", "s", "h">>} : Contains(first_line, shell)

\* f is the file at p; a file that cannot be opened has no shebang
BashCanAnalyze(p, f) ==
    \/ Lower(PathSuffix(p)) \in BashExtensions
    \/ f.exists /\ HasShebang(f.lines[1])

\* get_analyzer: the language of the analyzer it returns.  Its last line
\* instantiates BaseAnalyzer, which has abstract methods: that raises
\* TypeError.
get_analyzer(p, f) ==
    IF PythonCanAnalyze(p) THEN "Python"
    ELSE IF JavaScriptCanAnalyze(p) THEN "JavaScript/TypeScript"
    ELSE IF BashCanAnalyze(p, f) THEN "Bash"
    ELSE "TypeError"

\* ------------------------------------------------------------------------
\* Analyzers: complexity metrics by line scanning.  A source is given by
\* its lines (source.split("\n")).
\* ------------------------------------------------------------------------
\* ComplexityMetrics as the analyzers build it.  function_count,
\* class_count and param_count (counts of definitions found by regular
\* expressions) are read by no decision of the analyzers and are not
\* carried here.
Metrics(line_count, code_lines, nesting_depth, complexity_score) ==
    [line_count |-> line_count, code_lines |-> code_lines,
     nesting_depth |-> nesting_depth, complexity_score |-> complexity_score]

\* the dataclass ComplexityMetrics with all its fields
ComplexityMetrics(line_count, code_lines, nesting_depth, complexity_score, function_count, class_count, param_count) ==
    [line_count |-> line_count, code_lines |-> code_lines,
     nesting_depth |-> nesting_depth, complexity_score |-> complexity_score,
     function_count |-> function_count, class_count |-> class_count,
     param_count |-> param_count]

\* is_high_complexity with every threshold itself counted as high
is_high_complexity_at_threshold(m) ==
    m.line_count >= 100 \/ m.nesting_depth >= 4 \/ m.complexity_score >= 10

\* ComplexityMetrics.is_high_complexity
is_high_complexity(m) ==
    m.line_count > 100 \/ m.nesting_depth > 4 \/ m.complexity_score > 10

\* Optional[ComplexityMetrics] None
NoMetrics == [none |-> TRUE]

\* s.count(c)
CountOf(s, c) == Cardinality({i \in 1..Len(s) : s[i] = c})

\* any(kw in s for kw in kws)
AnyIn(kws, s) == \E kw \in kws : Contains(s, kw)

\* code lines: not blank, not a "#" comment
IsHashCode(line) == Strip(line) # <<>> /\ ~StartsWith(Strip(line), <<"#">>)

\* BaseAnalyzer._calculate_cyclomatic
CyclomaticKeywords ==
    {<<"i", "f">>, <<"e", "l", "s", "e">>, <<"e", "l", "i", "f">>, <<"f", "o", "r">>, <<"w", "h", "i", "l", "e">>, <<"c", "a", "s", "e">>, <<"s", "w", "i", "t", "c", "h">>,
     <<"c", "a", "t", "c", "h">>, <<"t", "r", "y">>, <<"e", "x", "c", "e", "p", "t">>, <<"f", "i", "n", "a", "l", "l", "y">>, <<"a", "n", "d">>, <<"o", "r">>}

HasCyclomaticKeyword(line) ==
    \E kw \in CyclomaticKeywords :
        \/ StartsWith(Strip(line), kw \o <<" ">>)
        \/ Contains(Strip(line), kw \o <<" ">>)

_calculate_cyclomatic(lines) == 1 + Cardinality({i \in 1..Len(lines) : HasCyclomaticKeyword(lines[i])})

\* BaseAnalyzer.calculate_complexity, the nesting loop of lines 238-248:
\* d is nesting_depth, mx is max_nesting before line i
GenericOpens(line) ==
    Contains(line, <<"{">>) \/ (Contains(line, <<":">>) /\ ~StartsWith(Strip(line), <<"#">>))

GenericAfter(line, d) ==
    IF Contains(line, <<"}">>)
    THEN Max(0, (IF GenericOpens(line) THEN d + 1 ELSE d) - 1)
    ELSE IF GenericOpens(line) THEN d + 1 ELSE d

RECURSIVE GenericNesting(_, _, _, _)
GenericNesting(lines, i, d, mx) ==
    IF i > Len(lines) THEN mx
    ELSE GenericNesting(lines, i + 1, GenericAfter(lines[i], d),
                        IF GenericOpens(lines[i]) THEN Max(mx, d + 1) ELSE mx)

calculate_complexity(lines) ==
    Metrics(Len(lines), Cardinality({i \in 1..Len(lines) : IsHashCode(lines[i])}),
            GenericNesting(lines, 1, 0, 0), _calculate_cyclomatic(lines))

\* JavaScriptAnalyzer._calculate_nesting_depth: the loop body on one line;
\* d is current_depth before the line
JsNestingKeywords ==
    {<<"i", "f">>, <<"f", "o", "r">>, <<"w", "h", "i", "l", "e">>, <<"f", "u", "n", "c", "t", "i", "o", "n">>, <<"=", ">">>, <<"c", "l", "a", "s", "s">>, <<"s", "w", "i", "t", "c", "h">>, <<"t", "r", "y">>, <<"c", "a", "t", "c", "h">>}

JsOpens(stripped) ==
    /\ AnyIn(JsNestingKeywords, stripped)
    /\ Contains(stripped, <<"{">>) \/ Contains(stripped, <<":">>)

JsAfter(stripped, d) ==
    Max(0, (IF JsOpens(stripped) THEN d + 1 ELSE d) - CountOf(stripped, "}"))

\* BashAnalyzer._calculate_nesting_depth: the loop body on one line
BashOpens(stripped) ==
    /\ AnyIn({<<"i", "f">>, <<"t", "h", "e", "n">>, <<"f", "o", "r">>, <<"w", "h", "i", "l", "e">>, <<"c", "a", "s", "e">>}, stripped)
    /\ ~StartsWith(stripped, <<"#">>)

BashAfter(stripped, d) ==
    IF AnyIn({<<"f", "i">>, <<"d", "o", "n", "e">>, <<"e", "s", "a", "c">>}, stripped)
    THEN Max(0, (IF BashOpens(stripped) THEN d + 1 ELSE d) - 1)
    ELSE IF BashOpens(stripped) THEN d + 1 ELSE d

\* The loop of _calculate_nesting_depth of the line-scanning analyzers:
\* trace holds current_depth at the end of every iteration so far
RECURSIVE NestingLoop(_, _, _, _, _, _)
NestingLoop(lines, i, d, mx, trace, lang) ==
    IF i > Len(lines) THEN [max_depth |-> mx, trace |-> trace]
    ELSE IF lang = "Bash"
         THEN NestingLoop(lines, i + 1, BashAfter(Strip(lines[i]), d),
                          IF BashOpens(Strip(lines[i])) THEN Max(mx, d + 1) ELSE mx,
                          Append(trace, BashAfter(Strip(lines[i]), d)), lang)
         ELSE NestingLoop(lines, i + 1, JsAfter(Strip(lines[i]), d),
                          IF JsOpens(Strip(lines[i])) THEN Max(mx, d + 1) ELSE mx,
                          Append(trace, JsAfter(Strip(lines[i]), d)), lang)

JsNestingDepth(lines) == NestingLoop(lines, 1, 0, 0, <<>>, "JavaScript/TypeScript").max_depth

BashNestingDepth(lines) == NestingLoop(lines, 1, 0, 0, <<>>, "Bash").max_depth

\* JavaScriptAnalyzer._calculate_complexity_js
IsJsCode(line) ==
    /\ Strip(line) # <<>>
    /\ ~StartsWith(Strip(line), <<"/", "/">>)
    /\ ~StartsWith(Strip(line), <<"/", "*">>)

JsControlFlow == {<<"i", "f">>, <<"e", "l", "s", "e">>, <<"f", "o", "r">>, <<"w", "h", "i", "l", "e">>, <<"c", "a", "s", "e">>, <<"c", "a", "t", "c", "h">>, <<"s", "w", "i", "t", "c", "h">>, <<"&", "&">>, <<"|", "|">>}

HasJsControlFlow(line) == AnyIn(JsControlFlow, Strip(line))

_calculate_complexity_js(lines) ==
    Metrics(Len(lines), Cardinality({i \in 1..Len(lines) : IsJsCode(lines[i])}),
            JsNestingDepth(lines), 1 + Cardinality({i \in 1..Len(lines) : HasJsControlFlow(lines[i])}))

\* BashAnalyzer._calculate_complexity_bash
BashControlFlow ==
    {<<"i", "f">>, <<"t", "h", "e", "n">>, <<"e", "l", "i", "f">>, <<"e", "l", "s", "e">>, <<"f", "o", "r">>, <<"w", "h", "i", "l", "e">>, <<"c", "a", "s", "e">>, <<"e", "s", "a", "c">>, <<"|", "|">>, <<"&", "&">>}

HasBashControlFlow(line) ==
    AnyIn(BashControlFlow, Strip(line)) /\ ~StartsWith(Strip(line), <<"#">>)

_calculate_complexity_bash(lines) ==
    Metrics(Len(lines), Cardinality({i \in 1..Len(lines) : IsHashCode(lines[i])}),
            BashNestingDepth(lines), 1 + Cardinality({i \in 1..Len(lines) : HasBashControlFlow(lines[i])}))

\* ------------------------------------------------------------------------
\* Analyzers: the Python variant.  ast.parse is modelled on the statements
\* "pass", "if a:", "if a: pass" and "def f():" at any indentation, blank
\* lines and "#" comment lines; every other line is one the grammar
\* rejects ("def f(:" in the inputs).  The tree is made of nodes
\* [type, name, children], children in the order of ast.iter_child_nodes.
\* ------------------------------------------------------------------------
Node(type, name, children) == [type |-> type, name |-> name, children |-> children]

NameNode == Node("Name", "a", <<Node("Load", "", <<>>)>>)
PassNode == Node("Pass", "", <<>>)
IfNode(body) == Node("If", "", <<NameNode>> \o body)
FunctionDefNode(body) == Node("FunctionDef", "f", <<Node("arguments", "", <<>>)>> \o body)
ModuleNode(body) == Node("Module", "", body)

CompoundNode(text, body) ==
    IF text = <<"i", "f", " ", "a", ":">> THEN IfNode(body) ELSE FunctionDefNode(body)

\* the logical lines of the tokenizer: blank and comment lines dropped,
\* each line with the width of its indentation
RECURSIVE Tokens(_)
Tokens(lines) ==
    IF lines = <<>> THEN <<>>
    ELSE (IF IsHashCode(Head(lines))
          THEN <<[indent |-> Len(Head(lines)) - Len(LStrip(Head(lines))),
                  text |-> Strip(Head(lines))]>>
          ELSE <<>>) \o Tokens(Tail(lines))

ParseFailed == [ok |-> FALSE, nodes |-> <<>>, next |-> 0]

\* the statements of one block, indented by ind, from token i on; nodes
\* are the statements of the block parsed so far
RECURSIVE ParseStmts(_, _, _, _)
RECURSIVE ParseBody(_, _, _, _, _)
ParseStmts(toks, i, ind, nodes) ==
    IF i > Len(toks) \/ toks[i].indent < ind
    THEN [ok |-> TRUE, nodes |-> nodes, next |-> i]
    ELSE IF toks[i].indent > ind THEN ParseFailed
    ELSE IF toks[i].text = <<"p", "a", "s", "s">>
         THEN ParseStmts(toks, i + 1, ind, Append(nodes, PassNode))
    ELSE IF toks[i].text = <<"i", "f", " ", "a", ":", " ", "p", "a", "s", "s">>
         THEN ParseStmts(toks, i + 1, ind, Append(nodes, IfNode(<<PassNode>>)))
    ELSE IF toks[i].text \in {<<"i", "f", " ", "a", ":">>, <<"d", "e", "f", " ", "f", "(", ")", ":">>}
         THEN IF i + 1 <= Len(toks) /\ toks[i + 1].indent > ind
              THEN ParseBody(toks, i, ind, nodes,
                             ParseStmts(toks, i + 1, toks[i + 1].indent, <<>>))
              ELSE ParseFailed
    ELSE ParseFailed

\* the compound statement at token i, its block parsed as body
ParseBody(toks, i, ind, nodes, body) ==
    IF body.ok
    THEN ParseStmts(toks, body.next, ind, Append(nodes, CompoundNode(toks[i].text, body.nodes)))
    ELSE ParseFailed

\* ast.parse(source): ok is FALSE when it raises SyntaxError
ast_parse(lines) == ParseStmts(Tokens(lines), 1, 0, <<>>)

MaxOf(S) == CHOOSE x \in S : \A y \in S : y <= x

NestingTypes == {"If", "While", "For", "With", "Try"}

\* count_nesting of PythonAnalyzer._calculate_nesting_depth: the largest
\* depth seen in the subtree of node, itself at depth
RECURSIVE count_nesting(_, _)
count_nesting(node, depth) ==
    MaxOf({depth} \cup
          {count_nesting(node.children[j],
                         IF node.children[j].type \in NestingTypes THEN depth + 1 ELSE depth) :
               j \in 1..Len(node.children)})

PyNestingDepth(tree) == count_nesting(tree, 0)

\* ast.walk(tree): every node of the tree
RECURSIVE ast_walk(_)
RECURSIVE WalkAll(_)
ast_walk(node) == <<node>> \o WalkAll(node.children)

WalkAll(nodes) ==
    IF nodes = <<>> THEN <<>> ELSE ast_walk(Head(nodes)) \o WalkAll(Tail(nodes))

NodesOfTypes(nodes, types) == {j \in 1..Len(nodes) : nodes[j].type \in types}

\* PythonAnalyzer._calculate_complexity_ast; nodes is ast.walk(tree)
_calculate_complexity_ast(tree, nodes, lines) ==
    Metrics(Len(lines),
            Cardinality({i \in 1..Len(lines) : IsHashCode(lines[i])}),
            PyNestingDepth(tree),
            1 + Cardinality(NodesOfTypes(nodes, {"If", "While", "For", "ExceptHandler"}))
              + Cardinality(NodesOfTypes(nodes, {"BoolOp", "Compare"})))

\* the names of the nodes of one type, in walk order
RECURSIVE NamesOfType(_, _)
NamesOfType(nodes, type) ==
    IF nodes = <<>> THEN <<>>
    ELSE (IF Head(nodes).type = type THEN <<Head(nodes).name>> ELSE <<>>)
             \o NamesOfType(Tail(nodes), type)

\* PythonAnalyzer._extract_functions / _extract_classes (the names)
_extract_functions(nodes) == NamesOfType(nodes, "FunctionDef")
_extract_classes(nodes) == NamesOfType(nodes, "ClassDef")

\* ------------------------------------------------------------------------
\* Analyzers: layers, actions and analyze
\* ------------------------------------------------------------------------
\* BaseAnalyzer.detect_layers before list(set(layers)): the layers appended
DetectedLayers(message) ==
    (IF AnyIn({<<"f", "i", "x">>, <<"b", "u", "g">>, <<"e", "r", "r", "o", "r">>}, Lower(message)) THEN {"memo"} ELSE {})
        \cup (IF AnyIn({<<"d", "e", "c", "i", "s", "i", "o", "n">>, <<"U+9009", "U+578B">>, <<"a", "r", "c", "h", "i", "t", "e", "c", "t", "u", "r", "e">>}, Lower(message))
              THEN {"memo"} ELSE {})
        \cup {"traditional"}

\* list(set(layers)): the elements of S, once each, in the order the set
\* iterates (any order)
ListsOfSet(S) ==
    {s \in [1..Cardinality(S) -> S] : \A i, j \in 1..Cardinality(S) : s[i] = s[j] => i = j}

\* BaseAnalyzer.detect_layers: the lists it may return
detect_layers(message) == ListsOfSet(DetectedLayers(message))

IsAddition(message) == AnyIn({<<"f", "e", "a", "t">>, <<"a", "d", "d">>, <<"n", "e", "w">>}, Lower(message))

HasPart(p, names) == \E j \in 1..Len(PathParts(p)) : PathParts(p)[j] \in names

TableRowAction(section) ==
    [target |-> "README.md", section |-> section, action |-> "append_table_row"]

ComplexityNote(doc) == [target |-> doc, action |-> "append_complexity_note"]

\* PythonAnalyzer._determine_actions ("data" of an action is left out)
PythonActions(p, message, complexity) ==
    (IF HasPart(p, {<<"s", "e", "r", "v", "i", "c", "e">>, <<"s", "e", "r", "v", "i", "c", "e", "s">>}) /\ IsAddition(message)
     THEN <<TableRowAction("Services")>> ELSE <<>>)
        \o (IF is_high_complexity(complexity)
            THEN <<ComplexityNote("docs/architecture.md")>> ELSE <<>>)

\* JavaScriptAnalyzer._determine_actions
JavaScriptActions(p, message, complexity) ==
    (IF HasPart(p, {<<"c", "o", "m", "p", "o", "n", "e", "n", "t">>, <<"c", "o", "m", "p", "o", "n", "e", "n", "t", "s">>}) /\ IsAddition(message)
     THEN <<TableRowAction("Components")>> ELSE <<>>)
        \o (IF is_high_complexity(complexity)
            THEN <<ComplexityNote("docs/architecture.md")>> ELSE <<>>)

\* BashAnalyzer._determine_actions
BashActions(p, complexity) ==
    (IF HasPart(p, {<<"t", "o", "o", "l">>, <<"t", "o", "o", "l", "s">>, <<"b", "i", "n">>})
     THEN <<TableRowAction("Tools")>> ELSE <<>>)
        \o (IF is_high_complexity(complexity)
            THEN <<ComplexityNote("docs/tools.md")>> ELSE <<>>)

\* AnalysisResult.  via tells which return statement of analyze built it:
\* "empty" (_empty_result), "syntax_error" or "full".  functions and
\* classes are the names found; imports and metadata are left out, and so
\* are the functions and classes the JavaScript and Bash variants find by
\* regular expressions.
AnalysisResult(via, language, layers, actions, complexity, functions, classes) ==
    [via |-> via, language |-> language, layers |-> layers, actions |-> actions,
     complexity |-> complexity, functions |-> functions, classes |-> classes]

RegexResult(language, layers, actions, complexity) ==
    [via |-> "full", language |-> language, layers |-> layers, actions |-> actions,
     complexity |-> complexity]

_empty_result(language) == AnalysisResult("empty", language, <<>>, <<>>, NoMetrics, <<>>, <<>>)

NoResult == [via |-> "none"]

\* PythonAnalyzer.analyze, lines 64-89: the source parsed into tree
PythonFull(p, message, nodes, complexity) ==
    {AnalysisResult("full", "Python", layers, PythonActions(p, message, complexity),
                    complexity, _extract_functions(nodes), _extract_classes(nodes)) :
         layers \in detect_layers(message)}

\* PythonParsed with the layers of a file that does not parse taken from
\* the commit message, like those of a file that parses
PythonParsed_layers_detected(p, lines, message, parsed) ==
    IF ~parsed.ok
    THEN {AnalysisResult("syntax_error", "Python", layers, <<>>,
                         calculate_complexity(lines), <<>>, <<>>) :
              layers \in detect_layers(message)}
    ELSE PythonFull(p, message, ast_walk(ModuleNode(parsed.nodes)),
                    _calculate_complexity_ast(ModuleNode(parsed.nodes),
                                              ast_walk(ModuleNode(parsed.nodes)), lines))

\* PythonAnalyzer.analyze, lines 51-89: parsed is what ast.parse gave
PythonParsed(p, lines, message, parsed) ==
    IF ~parsed.ok
    THEN {AnalysisResult("syntax_error", "Python", <<"traditional">>, <<>>,
                         calculate_complexity(lines), <<>>, <<>>)}
    ELSE PythonFull(p, message, ast_walk(ModuleNode(parsed.nodes)),
                    _calculate_complexity_ast(ModuleNode(parsed.nodes),
                                              ast_walk(ModuleNode(parsed.nodes)), lines))

\* PythonAnalyzer.analyze: the results it may return (they differ in the
\* order of layers only)
PythonAnalyze(p, f, message) ==
    IF ~f.exists THEN {_empty_result("Python")}
    ELSE PythonParsed(p, f.lines, message, ast_parse(f.lines))

\* path.suffix in [".ts", ".tsx"] (the suffix is not lowered here)
JsLanguage(p) ==
    IF PathSuffix(p) \in {<<".", "t", "s">>, <<".", "t", "s", "x">>} THEN "TypeScript" ELSE "JavaScript"

JavaScriptFull(p, message, complexity) ==
    {RegexResult(JsLanguage(p), layers, JavaScriptActions(p, message, complexity), complexity) :
         layers \in detect_layers(message)}

\* JavaScriptAnalyzer.analyze
JavaScriptAnalyze(p, f, message) ==
    IF ~f.exists THEN {_empty_result("JavaScript/TypeScript")}
    ELSE JavaScriptFull(p, message, _calculate_complexity_js(f.lines))

BashFull(p, message, complexity) ==
    {RegexResult("Bash", layers, BashActions(p, complexity), complexity) :
         layers \in detect_layers(message)}

\* BashAnalyzer.analyze
BashAnalyze(p, f, message) ==
    IF ~f.exists THEN {_empty_result("Bash")}
    ELSE BashFull(p, message, _calculate_complexity_bash(f.lines))

\* analyzer.analyze(file_path, context) for the analyzer of that language
analyze(language, p, f, message) ==
    IF language = "Python" THEN PythonAnalyze(p, f, message)
    ELSE IF language = "JavaScript/TypeScript" THEN JavaScriptAnalyze(p, f, message)
    ELSE BashAnalyze(p, f, message)

\* ------------------------------------------------------------------------
\* Inputs
\* ------------------------------------------------------------------------
Services == <<"S", "e", "r", "v", "i", "c", "e", "s">>
Other == <<"O", "t", "h", "e", "r">>
Name == <<"N", "a", "m", "e">>
Type == <<"T", "y", "p", "e">>

\* the lines the generated start files are made of
LineVocab ==
    { <<>>,
      <<"#", "#", " ", "S", "e", "r", "v", "i", "c", "e", "s">>,
      <<"#", "#", " ", "O", "t", "h", "e", "r">>,
      <<"O", "l", "d", " ", "c", "o", "n", "t", "e", "n", "t">>,
      <<"|", " ", "N", "a", "m", "e", " ", "|">> }

\* the files of the repository's tests (tests/integration/test_workflow.py)
SampleDocs ==
    { << <<"#", " ", "T", "e", "s", "t">>, <<>>, <<"#", "#", " ", "S", "e", "r", "v", "i", "c", "e", "s">>, <<>>,
         <<"|", " ", "N", "a", "m", "e", " ", "|", " ", "T", "y", "p", "e", " ", "|">>,
         <<"|", "-", "-", "-", "-", "-", "-", "|", "-", "-", "-", "-", "-", "-", "|">>,
         <<"|", " ", "a", "u", "t", "h", " ", "|", " ", "s", "e", "r", "v", "i", "c", "e", " ", "|">>,
         <<>> >>,
      << <<"#", " ", "T", "e", "s", "t">>, <<>>, <<"#", "#", " ", "S", "e", "r", "v", "i", "c", "e", "s">>, <<>>, <<"O", "l", "d", " ", "c", "o", "n", "t", "e", "n", "t">>, <<>>, <<"#", "#", " ", "O", "t", "h", "e", "r">>, <<>> >>,
      << <<"#", " ", "T", "e", "s", "t">>, <<>>, <<"E", "x", "i", "s", "t", "i", "n", "g", " ", "c", "o", "n", "t", "e", "n", "t">> >>,
      << <<"#", " ", "T", "e", "s", "t">>, <<>> >>,
      << <<"#", "#", " ", "S", "e", "r", "v", "i", "c", "e", "s">>, <<>>, <<"|", " ", "T", "y", "p", "e", " ", "|">>, <<"|", " ", "-", "-", "-", " ", "|">>, <<"|", " ", "s", "e", "r", "v", "i", "c", "e", " ", "|">> >>,
      << <<"#", " ", "T", "e", "s", "t">>, <<"#", "#", " ", "s", "e", "r", "v", "i", "c", "e", "s">>, <<"O", "l", "d", " ", "c", "o", "n", "t", "e", "n", "t">>, <<"#", "#", "#", " ", "U", "s", "a", "g", "e">>, <<"O", "l", "d", " ", "c", "o", "n", "t", "e", "n", "t">> >> }

StartDocs == (SeqsUpTo(LineVocab, MaxLines) \ {<<>>}) \cup SampleDocs

RowDatas ==
    { << <<Name, <<"u", "s", "e", "r">>>>, <<Type, <<"s", "e", "r", "v", "i", "c", "e">>>> >>,
      << <<Name, <<"a", "u", "t", "h">>>>, <<Type, <<"s", "e", "r", "v", "i", "c", "e">>>> >>,
      << <<Name, <<"a", "u", "t", "h">>>> >> }

\* (row_data, table_headers) of append_table_row; <<>> is table_headers=None
TableArgs ==
    {<<rd, <<>>>> : rd \in RowDatas}
        \cup {<< << <<Name, <<"a", "u", "t", "h">>>> >>, <<Name, Type>> >>}

Contents ==
    { << <<"N", "e", "w", " ", "c", "o", "n", "t", "e", "n", "t">> >>,
      << <<"N", "e", "w", " ", "c", "o", "n", "t", "e", "n", "t">>, <<>>, <<"M", "u", "l", "t", "i", "-", "l", "i", "n", "e">> >> }

\* (new_content, replace_subsection) of update_section
SectionArgs ==
    {<<ct, <<>>>> : ct \in Contents} \cup {<< << <<"N", "e", "w", " ", "c", "o", "n", "t", "e", "n", "t">> >>, <<"U", "s", "a", "g", "e">> >>}

\* dry_run, backup, perm: a dry run never reaches a write of a file
Configs ==
    {<<FALSE, b, p>> : b \in BOOLEAN, p \in Perms}
        \cup {<<TRUE, TRUE, p>> : p \in {"rw", "dir_ro"}}

PatChars == {"a", "/", "*"}
PathChars == {"a", "A", "/"}

\* the patterns and paths of glob_match's docstring and of the tests
SamplePatterns ==
    { <<"s", "e", "r", "v", "i", "c", "e", "s", "/", "*", "*", "/", "*", ".", "p", "y">>,
      <<"*", "*", "/", "*", ".", "p", "y">>,
      <<"*", ".", "p", "y">>,
      <<"s", "?", "c", "/", "*", ".", "p", "y">>,
      <<"*", "*", "/", "s", "e", "r", "v", "i", "c", "e", "s", "/", "*", "*">> }

SamplePaths ==
    { <<"s", "e", "r", "v", "i", "c", "e", "s", "/", "a", "u", "t", "h", ".", "p", "y">>,
      <<"s", "e", "r", "v", "i", "c", "e", "s", "/", "n", "e", "s", "t", "e", "d", "/", "f", "i", "l", "e", ".", "p", "y">>,
      <<"s", "e", "r", "v", "i", "c", "e", "s", ".", "p", "y">>,
      <<"m", "a", "i", "n", ".", "p", "y">>,
      <<"s", "r", "c", "/", "m", "a", "i", "n", ".", "p", "y">> }

Patterns == SeqsUpTo(PatChars, MaxPatLen) \cup SamplePatterns
Paths == SeqsUpTo(PathChars, MaxPathLen) \cup SamplePaths

\* ------------------------------------------------------------------------
\* Inputs of the analyzers
\* ------------------------------------------------------------------------
Spaces(n) == [i \in 1..n |-> " "]

\* the lines the generated Python, JavaScript and Bash sources are made of
PyVocab ==
    {Spaces(n) \o t : n \in {0, 4, 8}, t \in {<<"i", "f", " ", "a", ":">>, <<"p", "a", "s", "s">>}}
        \cup {<<"i", "f", " ", "a", ":", " ", "p", "a", "s", "s">>, <<"d", "e", "f", " ", "f", "(", ")", ":">>, <<"d", "e", "f", " ", "f", "(", ":">>, <<>>}

JsVocab == {<<"i", "f", " ", "(", "a", ")", " ", "{">>, <<"i", "f", " ", "(", "a", ")">>, <<"{">>, <<"}">>, <<"x", "(", ")", ";">>, <<"}", " ", "e", "l", "s", "e", " ", "{">>}

ShVocab == {<<"i", "f", " ", "[", " ", "a", " ", "]", ";", " ", "t", "h", "e", "n">>, <<"i", "f", " ", "[", " ", "a", " ", "]">>, <<"t", "h", "e", "n">>, <<"e", "c", "h", "o", " ", "x">>, <<"f", "i">>, <<"e", "l", "s", "e">>}

\* k nested if blocks, the layouts of each language
NestedPy(k) ==
    [i \in 1..(k + 1) |->
        IF i <= k THEN Spaces(4 * (i - 1)) \o <<"i", "f", " ", "a", ":">> ELSE Spaces(4 * k) \o <<"p", "a", "s", "s">>]

\* the opening brace on the line of the if
NestedJsSameLine(k) ==
    [i \in 1..(2 * k + 1) |->
        IF i <= k THEN Spaces(2 * (i - 1)) \o <<"i", "f", " ", "(", "a", ")", " ", "{">>
        ELSE IF i = k + 1 THEN Spaces(2 * k) \o <<"x", "(", ")", ";">>
        ELSE Spaces(2 * (2 * k + 1 - i)) \o <<"}">>]

\* the opening brace on a line of its own
NestedJsNextLine(k) ==
    [i \in 1..(3 * k + 1) |->
        IF i <= 2 * k
        THEN Spaces(2 * ((i - 1) \div 2)) \o (IF i % 2 = 1 THEN <<"i", "f", " ", "(", "a", ")">> ELSE <<"{">>)
        ELSE IF i = 2 * k + 1 THEN Spaces(2 * k) \o <<"x", "(", ")", ";">>
        ELSE Spaces(2 * (3 * k + 1 - i)) \o <<"}">>]

\* "then" on the line of the if
NestedShSameLine(k) ==
    [i \in 1..(2 * k + 1) |->
        IF i <= k THEN Spaces(2 * (i - 1)) \o <<"i", "f", " ", "[", " ", "a", " ", "]", ";", " ", "t", "h", "e", "n">>
        ELSE IF i = k + 1 THEN Spaces(2 * k) \o <<"e", "c", "h", "o", " ", "x">>
        ELSE Spaces(2 * (2 * k + 1 - i)) \o <<"f", "i">>]

\* "then" on a line of its own
NestedShNextLine(k) ==
    [i \in 1..(3 * k + 1) |->
        IF i <= 2 * k
        THEN Spaces(2 * ((i - 1) \div 2)) \o (IF i % 2 = 1 THEN <<"i", "f", " ", "[", " ", "a", " ", "]">> ELSE <<"t", "h", "e", "n">>)
        ELSE IF i = 2 * k + 1 THEN Spaces(2 * k) \o <<"e", "c", "h", "o", " ", "x">>
        ELSE Spaces(2 * (3 * k + 1 - i)) \o <<"f", "i">>]

PySamples ==
    {NestedPy(k) : k \in 0..MaxNest}
        \cup { NestedPy(MaxNest) \o <<<<"d", "e", "f", " ", "f", "(", ":">>>>,
               NestedPy(MaxNest - 1) \o <<<<"d", "e", "f", " ", "f", "(", ":">>>>,
               <<<<"d", "e", "f", " ", "f", "(", ")", ":">>, <<" ", " ", " ", " ", "p", "a", "s", "s">>, <<"d", "e", "f", " ", "f", "(", ":">>>>,
               <<<<"#", "!", "/", "b", "i", "n", "/", "s", "h">>, <<"p", "a", "s", "s">>>> }

JsSamples ==
    {NestedJsSameLine(k) : k \in 0..MaxNest} \cup {NestedJsNextLine(k) : k \in 0..MaxNest}

ShSamples ==
    {NestedShSameLine(k) : k \in 0..MaxNest} \cup {NestedShNextLine(k) : k \in 0..MaxNest}
        \cup {<<<<"#", "!", "/", "b", "i", "n", "/", "b", "a", "s", "h">>>> \o NestedShSameLine(k) : k \in {1, MaxNest}}

\* (file_path, file) pairs: every generated source under one path of its
\* language, the samples under several paths, and files no analyzer claims
GeneratedFiles ==
    {<<<<"m", "a", "i", "n", ".", "p", "y">>, File(s)>> : s \in SeqsUpTo(PyVocab, MaxSrcLines) \ {<<>>}}
        \cup {<<<<"s", "r", "c", "/", "a", "p", "p", ".", "j", "s">>, File(s)>> : s \in SeqsUpTo(JsVocab, MaxSrcLines) \ {<<>>}}
        \cup {<<<<"r", "u", "n", ".", "s", "h">>, File(s)>> : s \in SeqsUpTo(ShVocab, MaxSrcLines) \ {<<>>}}

SampleFiles ==
    {<<p, File(s)>> : p \in {<<"s", "e", "r", "v", "i", "c", "e", "s", "/", "a", "u", "t", "h", ".", "p", "y">>, <<"m", "a", "i", "n", ".", "p", "y">>}, s \in PySamples}
        \cup {<<p, File(s)>> : p \in {<<"s", "r", "c", "/", "a", "p", "p", ".", "j", "s">>, <<"c", "o", "m", "p", "o", "n", "e", "n", "t", "s", "/", "A", "p", "p", ".", "t", "s", "x">>, <<"l", "i", "b", "/", "m", "o", "d", ".", "T", "S">>},
                               s \in JsSamples}
        \cup {<<p, File(s)>> : p \in {<<"t", "o", "o", "l", "s", "/", "r", "u", "n", ".", "s", "h">>, <<"d", "e", "p", "l", "o", "y">>}, s \in ShSamples}
        \cup {<<p, Absent>> : p \in {<<"m", "i", "s", "s", "i", "n", "g", ".", "p", "y">>, <<"m", "i", "s", "s", "i", "n", "g", ".", "j", "s">>, <<"m", "i", "s", "s", "i", "n", "g", ".", "s", "h">>, <<"R", "E", "A", "D", "M", "E", ".", "m", "d">>}}
        \cup {<<p, File(<<<<"#", " ", "D", "o", "c">>>>)>> : p \in {<<"R", "E", "A", "D", "M", "E", ".", "m", "d">>, <<"M", "a", "k", "e", "f", "i", "l", "e">>, <<".", "b", "a", "s", "h", "r", "c">>}}

Messages ==
    {<<>>, <<"F", "i", "x", " ", "B", "U", "G">>, <<"r", "e", "s", "o", "l", "v", "e", " ", "i", "s", "s", "u", "e">>, <<"f", "e", "a", "t", ":", " ", "a", "d", "d", " ", "s", "e", "r", "v", "i", "c", "e">>, <<"w", "e", " ", "d", "e", "c", "i", "d", "e">>}

\* Config.DEFAULT_CONFIG["keywords"] (troubleshooting and decisions), and
\* the keywords of a project that configured its own
DefaultKeywords ==
    [troubleshooting |-> <<<<"f", "i", "x">>, <<"b", "u", "g">>, <<"e", "r", "r", "o", "r">>, <<"i", "s", "s", "u", "e">>, <<"d", "e", "b", "u", "g">>>>,
     decisions |-> <<<<"d", "e", "c", "i", "s", "i", "o", "n">>, <<"d", "e", "c", "i", "d", "e">>, <<"U+9009", "U+578B">>, <<"a", "r", "c", "h", "i", "t", "e", "c", "t", "u", "r", "e">>>>]

KeywordConfigs ==
    {DefaultKeywords, [troubleshooting |-> <<<<"i", "s", "s", "u", "e">>>>, decisions |-> <<>>]}

\* ------------------------------------------------------------------------
\* StateManager: the pending update and the history of a project, kept in
\* pending.json of the project's state directory
\* ------------------------------------------------------------------------
\* a project directory is the tuple of the parts of its resolved path;
\* Path.name is the last part
ProjectName(project_path) == project_path[Len(project_path)]

\* Config.load: project_key is the configured one, the name of the project
\* directory when none ("") is configured
project_key(cfg) ==
    IF cfg.project_key # "" THEN cfg.project_key ELSE ProjectName(cfg.project_path)

\* Config.state_dir: state.dir / project_key; state.dir is "~/.git-doc-hook"
\* for every project, so the directory is named by the key
state_dir(cfg) == project_key(cfg)

\* {"pending": None, "history": []}
NoPending == [none |-> TRUE]
EmptyState == [pending |-> NoPending, history |-> <<>>]

NoStateFile == [exists |-> FALSE, state |-> EmptyState]
StateFile(state) == [exists |-> TRUE, state |-> state]

\* a state file whose text is not valid JSON, and the dict json.loads gives
\* for the text "{}".  A state is a dict: a function on the keys it holds.
CorruptStateFile == [exists |-> TRUE, corrupt |-> TRUE]
EmptyObject == <<>>

\* StateManager._load_state: the default state for a missing file and for
\* one json.loads rejects
_load_state(f) ==
    IF f.exists /\ "state" \in DOMAIN f THEN f.state ELSE EmptyState

\* dict.get(key, default)
DictGet(d, key, default) == IF key \in DOMAIN d THEN d[key] ELSE default

\* StateManager._save_state
_save_state(state) == StateFile(state)

\* PendingUpdate(...).to_dict() as set_pending builds it
PendingUpdate(layers, reason, triggered_by, timestamp) ==
    [layers |-> layers, reason |-> reason, triggered_by |-> triggered_by,
     timestamp |-> timestamp, memos_records |-> <<>>]

\* history[:n]
Take(history, n) == SubSeq(history, 1, IF Len(history) < n THEN Len(history) ELSE n)

HistoryLimit == 100

\* StateManager.set_pending; t is time.time()
set_pending(f, layers, reason, triggered_by, t) ==
    _save_state(("pending" :> PendingUpdate(layers, reason, triggered_by, t))
                    @@ _load_state(f))

\* {**state["pending"], "completed_at": time.time()}
Completed(pending, t) ==
    [layers |-> pending.layers, reason |-> pending.reason,
     triggered_by |-> pending.triggered_by, timestamp |-> pending.timestamp,
     memos_records |-> pending.memos_records, completed_at |-> t]

\* the calls that raise KeyError: state["history"] of a state without
\* the key, in add_to_history and in clear_pending of a pending update
KeyError(op, f) ==
    /\ "history" \notin DOMAIN _load_state(f)
    /\ \/ op = "add_to_history"
       \/ op = "clear_pending" /\ DictGet(_load_state(f), "pending", NoPending) # NoPending

\* StateManager.clear_pending (a call that raises leaves the file as it is)
clear_pending(f, t) ==
    IF KeyError("clear_pending", f) THEN f
    ELSE IF DictGet(_load_state(f), "pending", NoPending) # NoPending
    THEN _save_state([pending |-> NoPending,
                      history |-> Take(<<Completed(_load_state(f).pending, t)>>
                                           \o _load_state(f).history, HistoryLimit)])
    ELSE _save_state(("pending" :> NoPending) @@ _load_state(f))

\* the entry add_to_history builds (its "details" are left out)
HistoryEntry(layers, action, t) ==
    [layers |-> layers, action |-> action, timestamp |-> t]

\* add_to_history keeping every entry
add_to_history_unlimited(f, layers, action, t) ==
    IF KeyError("add_to_history", f) THEN f
    ELSE _save_state([_load_state(f) EXCEPT
                          !.history = <<HistoryEntry(layers, action, t)>> \o @])

\* StateManager.add_to_history
add_to_history(f, layers, action, t) ==
    IF KeyError("add_to_history", f) THEN f
    ELSE _save_state([_load_state(f) EXCEPT
                          !.history = Take(<<HistoryEntry(layers, action, t)>> \o @,
                                           HistoryLimit)])

\* StateManager.cleanup
cleanup(f) == NoStateFile

\* StateManager.add_memos_record
add_memos_record(f, record) ==
    IF DictGet(_load_state(f), "pending", NoPending) # NoPending
    THEN _save_state([_load_state(f) EXCEPT
                          !.pending.memos_records = Append(@, record)])
    ELSE f

\* StateManager.get_pending: the pending update, NoPending for None
get_pending(f) == DictGet(_load_state(f), "pending", NoPending)

\* StateManager.is_pending
is_pending(f) == get_pending(f) # NoPending

\* StateManager.get_pending_memos_records
get_pending_memos_records(f) ==
    IF DictGet(_load_state(f), "pending", NoPending) # NoPending
    THEN _load_state(f).pending.memos_records
    ELSE <<>>

\* StateManager.get_history(limit)
get_history(f, limit) == Take(DictGet(_load_state(f), "history", <<>>), limit)

\* r.get("synced", False) of a MemOS record
IsSynced(r) == DictGet(r, "synced", FALSE)

\* StateManager.clear_pending_memos
clear_pending_memos(f, only_synced) ==
    IF DictGet(_load_state(f), "pending", NoPending) # NoPending
    THEN _save_state([_load_state(f) EXCEPT
                          !.pending.memos_records =
                              IF only_synced
                              THEN SelectSeq(@, LAMBDA r : ~IsSynced(r))
                              ELSE <<>>])
    ELSE f

\* StateManager.mark_memos_record_synced (record_index counts from 0)
mark_memos_record_synced(f, record_index) ==
    IF /\ DictGet(_load_state(f), "pending", NoPending) # NoPending
       /\ 0 <= record_index
       /\ record_index < Len(_load_state(f).pending.memos_records)
    THEN _save_state([_load_state(f) EXCEPT
                          !.pending.memos_records[record_index + 1] =
                              ("synced" :> TRUE) @@ @])
    ELSE f

\* ------------------------------------------------------------------------
\* Inputs of the state manager
\* ------------------------------------------------------------------------
\* project directories, two of them with the same name under different
\* parents, and one project whose configuration names its project_key
ProjectSetups ==
    { [project_path |-> <<"a", "proj">>, project_key |-> ""],
      [project_path |-> <<"b", "proj">>, project_key |-> ""],
      [project_path |-> <<"a", "other">>, project_key |-> ""],
      [project_path |-> <<"b", "tool">>, project_key |-> "mykey"] }

StateDirs == {state_dir(cfg) : cfg \in ProjectSetups}

\* the state file after n calls of add_to_history on a new state directory,
\* made at the times 1..n
Prefilled(n) ==
    IF n = 0 THEN NoStateFile
    ELSE StateFile([pending |-> NoPending,
                    history |-> [i \in 1..n |->
                                     HistoryEntry(<<"traditional">>, "update", n + 1 - i)]])

\* history lengths the calls start from: none, and just below and at the limit
PrefillLengths == {0, HistoryLimit - 1, HistoryLimit}

Reasons == {"Project1", "Project2"}

\* ------------------------------------------------------------------------
\* ConfigFileUpdater.update_clinerules.  A text is the sequence of its
\* lines; the empty text is the one empty line.
\* ------------------------------------------------------------------------
EmptyText == << <<>> >>

\* the four lines _generate_pattern_sections appends for every pattern
RECURSIVE PatternSections(_)
PatternSections(patterns) ==
    IF patterns = <<>> THEN <<>>
    ELSE << <<"#", "#", " ">> \o Head(patterns),
            <<>>,
            <<"W", "h", "e", "n", " ", "w", "o", "r", "k", "i", "n", "g", " ", "w", "i", "t", "h", " ">> \o Lower(Head(patterns))
                \o <<",", " ", "f", "o", "l", "l", "o", "w", " ", "t", "h", "e", " ", "p", "r", "o", "j", "e", "c", "t", " ", "c", "o", "n", "v", "e", "n", "t", "i", "o", "n", "s", ".">>,
            <<>> >> \o PatternSections(Tail(patterns))

\* ConfigFileUpdater._generate_pattern_sections: "\n".join(sections)
_generate_pattern_sections(patterns) ==
    IF patterns = <<>> THEN EmptyText ELSE PatternSections(patterns)

\* pattern.lower() in current_content.lower() (a pattern holds no newline)
InContent(current_content, p) ==
    \E i \in 1..Len(current_content) : Contains(Lower(current_content[i]), Lower(p))

\* the patterns update_clinerules collects in missing_patterns
RECURSIVE MissingPatterns(_, _)
MissingPatterns(patterns, current_content) ==
    IF patterns = <<>> THEN <<>>
    ELSE (IF InContent(current_content, Head(patterns)) THEN <<>> ELSE <<Head(patterns)>>)
             \o MissingPatterns(Tail(patterns), current_content)

\* existing_content or (target_file.read_text() if target_file.exists()
\* else ""); None and "" are both EmptyText
CurrentContent(f, existing_content) ==
    IF existing_content # EmptyText THEN existing_content
    ELSE IF f.exists THEN f.lines ELSE EmptyText

\* the content update_clinerules writes
NewRulesContent(current_content, new_sections) ==
    IF current_content # EmptyText
    THEN ConcatText(ConcatText(RStripLines(current_content), <<<<>>, <<>>, <<>>>>),
                    new_sections)
    ELSE ConcatText(<< <<"#", " ", "A", "I", " ", "A", "s", "s", "i", "s", "t", "a", "n", "t", " ", "R", "u", "l", "e", "s">>, <<>>, <<>> >>, new_sections)

\* ConfigFileUpdater.update_clinerules: the file afterwards and the result
update_clinerules(f, dry, patterns, existing_content) ==
    IF MissingPatterns(patterns, CurrentContent(f, existing_content)) = <<>>
    THEN [file |-> f,
          res |-> UpdateResult(TRUE, "update_clinerules", "All patterns already documented")]
    ELSE [file |-> IF ~dry
                   THEN File(NewRulesContent(CurrentContent(f, existing_content),
                                             _generate_pattern_sections(patterns)))
                   ELSE f,
          res |-> UpdateResult(TRUE, "update_clinerules",
                               "Added {len(missing_patterns)} pattern sections")]

\* ------------------------------------------------------------------------
\* Inputs of update_clinerules
\* ------------------------------------------------------------------------
PatternNames == {<<"T", "e", "s", "t", "i", "n", "g">>, <<"A", "P", "I", " ", "P", "a", "t", "t", "e", "r", "n", "s">>}

\* lists of detected patterns (extract_code_patterns returns list(set(...)):
\* no pattern twice)
PatternLists ==
    {<<>>} \cup {<<p>> : p \in PatternNames}
        \cup {pq \in PatternNames \X PatternNames : pq[1] # pq[2]}

\* .clinerules at the start: missing, a title only, the file a first call
\* for Testing writes, and a file that mentions testing in its text
StartRuleFiles ==
    { Absent,
      File(<< <<"#", " ", "A", "I", " ", "A", "s", "s", "i", "s", "t", "a", "n", "t", " ", "R", "u", "l", "e", "s">>, <<>> >>),
      File(<< <<"#", " ", "A", "I", " ", "A", "s", "s", "i", "s", "t", "a", "n", "t", " ", "R", "u", "l", "e", "s">>, <<>>, <<"#", "#", " ", "T", "e", "s", "t", "i", "n", "g">>, <<>>,
              <<"W", "h", "e", "n", " ", "w", "o", "r", "k", "i", "n", "g", " ", "w", "i", "t", "h", " ", "t", "e", "s", "t", "i", "n", "g", ",", " ", "f", "o", "l", "l", "o", "w", " ", "t", "h", "e", " ", "p", "r", "o", "j", "e", "c", "t", " ", "c", "o", "n", "v", "e", "n", "t", "i", "o", "n", "s", ".">>, <<>> >>),
      File(<< <<"R", "u", "n", " ", "t", "e", "s", "t", "i", "n", "g", " ", "d", "a", "i", "l", "y">>, <<>> >>) }

\* existing_content: None, or a text handed in by the caller
ExistingContents == {EmptyText, << <<"#", " ", "N", "o", "t", "e", "s">> >>}

\* ------------------------------------------------------------------------
\* MemOSClient and its offline cache.  The repository has two clients:
\* kind "http" is memos/client.py (requests to the MemOS API), kind "mcp" is
\* git_doc_hook/memos/client.py (the MCP tool).  available says whether
\* MemOS answers: for "http" that a request can succeed, for "mcp" the
\* flag _mcp_available.  A record is its content.
\* ------------------------------------------------------------------------
MemOSClient(kind, enabled, available) ==
    [kind |-> kind, enabled |-> enabled, available |-> available]

\* what one request can give: _make_request returning a response (TRUE) or
\* None, _mcp_add_message returning True or False
RequestOutcomes(client) == IF client.available THEN BOOLEAN ELSE {FALSE}

\* add_record: the new _offline_cache and the returned flag; ok is the
\* outcome of the request
add_record(client, cache, record, ok) ==
    IF ~client.enabled THEN [cache |-> cache, res |-> FALSE]
    ELSE IF client.kind = "http"
    THEN IF ok THEN [cache |-> cache, res |-> TRUE]
         ELSE [cache |-> Append(cache, record), res |-> FALSE]
    ELSE IF client.available /\ ok THEN [cache |-> cache, res |-> TRUE]
         ELSE [cache |-> Append(cache, record), res |-> FALSE]

\* sync_offline_cache is not the running or the last call
NoSync ==
    [pc |-> "idle", iter |-> 0, synced |-> 0, remaining |-> <<>>,
     start |-> <<>>, result |-> 0]

\* sync_offline_cache up to its for loop: the early returns, or the loop's
\* locals; start is the cache the call found
SyncEntered(client, cache) ==
    IF cache = <<>> \/ (client.kind = "mcp" /\ ~client.available)
    THEN [pc |-> "done", iter |-> 0, synced |-> 0, remaining |-> <<>>,
          start |-> cache, result |-> 0]
    ELSE [pc |-> "loop", iter |-> 1, synced |-> 0, remaining |-> <<>>,
          start |-> cache, result |-> 0]

\* one iteration of "for record in self._offline_cache": sent says whether
\* the record reached MemOS
SyncIterated(sync, record, sent) ==
    [sync EXCEPT !.iter = @ + 1,
                 !.synced = IF sent THEN @ + 1 ELSE @,
                 !.remaining = IF sent THEN @ ELSE Append(@, record)]

\* the end of sync_offline_cache
SyncReturned(sync) == [sync EXCEPT !.pc = "done", !.result = sync.synced]

\* ------------------------------------------------------------------------
\* State machine of the document mutation engine
\* ------------------------------------------------------------------------
FsNow == [dir |-> parentDir, target |-> target, bak |-> bak]

NoCall == [op |-> "none", args |-> <<>>, outcome |-> "none",
           res |-> UpdateResult(FALSE, "", ""), overwrote |-> FALSE]

GlobIdle ==
    /\ pattern = <<>>
    /\ path = <<>>
    /\ gpc = "start"
    /\ matched = FALSE

DocIdle ==
    /\ dry_run = FALSE
    /\ backup = TRUE
    /\ perm = "rw"
    /\ parentDir = TRUE
    /\ target = Absent
    /\ bak = Absent
    /\ before = [dir |-> TRUE, target |-> Absent, bak |-> Absent]
    /\ last = NoCall
    /\ prev = NoCall
    /\ ncalls = 0

RulesIdle ==
    /\ rules = <<>>
    /\ rpath = <<>>
    /\ rpc = "start"
    /\ matching = <<>>

AnalyzeIdle ==
    /\ file_path = <<>>
    /\ file = Absent
    /\ commit_message = <<>>
    /\ keywords = DefaultKeywords
    /\ apc = "start"
    /\ analyzer = "none"
    /\ result = NoResult

\* ------------------------------------------------------------------------
\* The commands check-pre-push and update (cli.py).  A command gives the
\* state file it leaves, its exit code, whether it ended in an exception,
\* and the layers it reported as updated.
\* ------------------------------------------------------------------------
\* what GitManager.get_diff gives check_pre_push: error for a GitError,
\* has_changes, whether a commit message holds a troubleshooting or
\* decisions keyword, and the layers of the rules the changed files match
Diff(error, has_changes, memo_keywords, rule_layers) ==
    [error |-> error, has_changes |-> has_changes,
     memo_keywords |-> memo_keywords, rule_layers |-> rule_layers]

NoDiff == Diff(FALSE, FALSE, FALSE, {})

\* check_pre_push: layers_to_update
layers_to_update(diff) ==
    (IF diff.memo_keywords THEN {"memo"} ELSE {}) \cup diff.rule_layers

\* list(layers) of a set of layers, in one order
LayerNames == <<"config", "memo", "traditional">>
ListOf(layers) == SelectSeq(LayerNames, LAMBDA l : l \in layers)

\* set(pending.layers)
SetOf(layers) == {layers[i] : i \in 1..Len(layers)}

Done(f, exit, updated) ==
    [file |-> f, exit |-> exit, raised |-> FALSE, updated |-> updated]

\* an exception that leaves the command: Python exits with 1
Raised(f) == [file |-> f, exit |-> 1, raised |-> TRUE, updated |-> {}]

\* check_pre_push; t is time.time()
check_pre_push(f, diff, t) ==
    IF diff.error \/ ~diff.has_changes \/ layers_to_update(diff) = {}
    THEN Done(f, 0, {})
    ELSE Done(set_pending(f, ListOf(layers_to_update(diff)),
                          "Changes detected in 1 files", "abc", t), 1, {})

\* _sync_to_memos raises AttributeError before it reaches add_memos_record:
\* it calls MemOSRecord.create_from_commit, and create_from_commit is a
\* classmethod of MemOSClient, not of MemOSRecord
_sync_to_memos(f) == Raised(f)

\* the list updated of update, when no layer raises
Updated(requested, traditional_ok, config_ok) ==
    {l \in requested : \/ l = "traditional" /\ traditional_ok
                       \/ l = "config" /\ config_ok
                       \/ l = "memo"}

\* update clearing the pending update as soon as one layer was updated
UpdateState_clearing(f, pending, updated, t) ==
    IF KeyError("clear_pending", f) THEN Raised(f)
    ELSE Done(clear_pending(f, t), 0, updated)

\* update, from "Update state" on: set_pending of the remaining layers, or
\* clear_pending
UpdateState(f, pending, updated, t) ==
    IF SetOf(pending.layers) \ updated # {}
    THEN Done(set_pending(f, ListOf(SetOf(pending.layers) \ updated),
                          pending.reason, pending.triggered_by, t), 0, updated)
    ELSE IF KeyError("clear_pending", f) THEN Raised(f)
    ELSE Done(clear_pending(f, t), 0, updated)

\* the command update (without --commit, which does not touch the state)
update(f, requested, traditional_ok, config_ok, t) ==
    IF ~is_pending(f) THEN Done(f, 0, {})
    ELSE IF requested \ SetOf(get_pending(f).layers) # {} THEN Done(f, 1, {})
    ELSE IF "memo" \in requested THEN _sync_to_memos(f)
    ELSE IF Updated(requested, traditional_ok, config_ok) = {} THEN Done(f, 0, {})
    ELSE UpdateState(f, get_pending(f),
                     Updated(requested, traditional_ok, config_ok), t)

\* no call of a StateManager yet
NoStateCall == [op |-> "none", mgr |-> 0, raised |-> FALSE]

StateIdle ==
    /\ managers = <<>>
    /\ state_files = <<>>
    /\ now = 0
    /\ sbefore = <<>>
    /\ slast = NoStateCall
    /\ nops = 0
    /\ sprev = NoStateCall
    /\ unpushed = NoDiff

ClinerulesIdle ==
    /\ cr_dry_run = FALSE
    /\ cr_file = Absent
    /\ cr_before = Absent
    /\ cr_last = [op |-> "none"]
    /\ cr_prev = [op |-> "none"]
    /\ cr_calls = 0

MemosIdle ==
    /\ mc_client = MemOSClient("http", FALSE, FALSE)
    /\ mc_cache = <<>>
    /\ mc_file = <<>>
    /\ mc_sync = NoSync
    /\ mc_calls = 0

MetricsIdle ==
    /\ metrics = ComplexityMetrics(0, 0, 0, 0, 0, 0, 0)
    /\ mpc = "start"
    /\ high = FALSE

Init ==
    /\ GlobIdle
    /\ RulesIdle
    /\ AnalyzeIdle
    /\ MetricsIdle
    /\ StateIdle
    /\ ClinerulesIdle
    /\ MemosIdle
    /\ \E cfg \in Configs :
           /\ dry_run = cfg[1]
           /\ backup = cfg[2]
           /\ perm = cfg[3]
    /\ \/ /\ target \in {File(d) : d \in StartDocs}
          /\ parentDir = TRUE
       \/ /\ target = Absent
          /\ parentDir \in BOOLEAN
    /\ bak = Absent
    /\ before = [dir |-> parentDir, target |-> target, bak |-> bak]
    /\ last = NoCall
    /\ prev = NoCall
    /\ ncalls = 0

\* One call of a mutation: r is what the mutation gave back
Call(op, args, r) ==
    /\ ncalls < MaxCalls
    /\ ncalls' = ncalls + 1
    /\ parentDir' = r.ctx.dir
    /\ target' = r.ctx.target
    /\ bak' = r.ctx.bak
    /\ before' = FsNow
    /\ prev' = last
    /\ last' = [op |-> op, args |-> args,
                outcome |-> IF r.ctx.raised THEN "raised" ELSE "returned",
                res |-> IF r.ctx.raised THEN UpdateResult(FALSE, "", "") ELSE r.res,
                overwrote |-> r.ctx.overwrote]
    /\ UNCHANGED <<dry_run, backup, perm>>
    /\ UNCHANGED <<globVars, rulesVars, analyzeVars, metricsVars, stateVars, clinerulesVars, memosVars>>

AppendTableRow ==
    \E ta \in TableArgs :
        Call("append_table_row", <<Services, ta[1], ta[2]>>,
             append_table_row(Ctx(parentDir, target, bak), Services, ta[1], ta[2]))

AppendRecord ==
    \E ct \in {<< <<"N", "e", "w", " ", "c", "o", "n", "t", "e", "n", "t">> >>} :
        Call("append_record", <<ct>>,
             append_record(Ctx(parentDir, target, bak), ct, DefaultSeparator))

UpdateSection ==
    \E sa \in SectionArgs :
        Call("update_section", <<Services, sa[1], sa[2]>>,
             update_section(Ctx(parentDir, target, bak), Services, sa[1], sa[2]))

PrependContent ==
    \E ah \in BOOLEAN :
        Call("prepend_content", << << <<"N", "e", "w", " ", "c", "o", "n", "t", "e", "n", "t">> >>, ah>>,
             prepend_content(Ctx(parentDir, target, bak), << <<"N", "e", "w", " ", "c", "o", "n", "t", "e", "n", "t">> >>, ah))

Next ==
    \/ AppendTableRow
    \/ AppendRecord
    \/ UpdateSection
    \/ PrependContent

Spec == Init /\ [][Next]_vars

\* ------------------------------------------------------------------------
\* State machine of the glob matcher: the inputs are drawn, glob_match is
\* applied once
\* ------------------------------------------------------------------------
InitGlob ==
    /\ DocIdle
    /\ RulesIdle
    /\ AnalyzeIdle
    /\ MetricsIdle
    /\ StateIdle
    /\ ClinerulesIdle
    /\ MemosIdle
    /\ pattern \in Patterns
    /\ path \in Paths
    /\ gpc = "start"
    /\ matched = FALSE

GlobMatch ==
    /\ gpc = "start"
    /\ gpc' = "done"
    /\ matched' = glob_match(pattern, path)
    /\ UNCHANGED <<pattern, path>>
    /\ UNCHANGED <<docVars, rulesVars, analyzeVars, metricsVars, stateVars, clinerulesVars, memosVars>>

NextGlob == GlobMatch

SpecGlob == InitGlob /\ [][NextGlob]_vars

\* ------------------------------------------------------------------------
\* State machine of the rule engine: the configured rules and the path are
\* drawn, get_rules_for_pattern is applied once
\* ------------------------------------------------------------------------
\* the patterns of DEFAULT_CONFIG's two rules, a single-star pattern and
\* the pattern of a rule that has none
RulePatterns ==
    { <<"s", "e", "r", "v", "i", "c", "e", "s", "/", "*", "*", "/", "*", ".", "p", "y">>,
      <<"*", "*", "/", "*", ".", "p", "y">>,
      <<"*", ".", "p", "y">>,
      <<>> }

RuleTargets == {"README.md", "docs/troubleshooting.md"}

RuleSet == {[pattern |-> p, target |-> t] : p \in RulePatterns, t \in RuleTargets}

InitRules ==
    /\ GlobIdle
    /\ DocIdle
    /\ AnalyzeIdle
    /\ MetricsIdle
    /\ StateIdle
    /\ ClinerulesIdle
    /\ MemosIdle
    /\ rules \in SeqsUpTo(RuleSet, MaxRules)
    /\ rpath \in SamplePaths \cup {<<"R", "E", "A", "D", "M", "E", ".", "m", "d">>}
    /\ rpc = "start"
    /\ matching = <<>>

GetRulesForPattern ==
    /\ rpc = "start"
    /\ rpc' = "done"
    /\ matching' = get_rules_for_pattern(rules, rpath)
    /\ UNCHANGED <<rules, rpath>>
    /\ UNCHANGED <<globVars, docVars, analyzeVars, metricsVars, stateVars, clinerulesVars, memosVars>>

NextRules == GetRulesForPattern

SpecRules == InitRules /\ [][NextRules]_vars

\* ------------------------------------------------------------------------
\* State machine of the analyzers: a file, a commit message and the
\* configured keywords are drawn; get_analyzer selects the analyzer, whose
\* analyze is then called
\* ------------------------------------------------------------------------
InitAnalyze ==
    /\ GlobIdle
    /\ DocIdle
    /\ RulesIdle
    /\ MetricsIdle
    /\ StateIdle
    /\ ClinerulesIdle
    /\ MemosIdle
    /\ \/ /\ \E pf \in GeneratedFiles :
                 /\ file_path = pf[1]
                 /\ file = pf[2]
          /\ commit_message = <<>>
          /\ keywords = DefaultKeywords
       \/ /\ \E pf \in SampleFiles :
                 /\ file_path = pf[1]
                 /\ file = pf[2]
          /\ commit_message \in Messages
          /\ keywords \in KeywordConfigs
    /\ apc = "start"
    /\ analyzer = "none"
    /\ result = NoResult

GetAnalyzer ==
    /\ apc = "start"
    /\ apc' = "selected"
    /\ analyzer' = get_analyzer(file_path, file)
    /\ UNCHANGED <<file_path, file, commit_message, keywords, result>>
    /\ UNCHANGED <<globVars, docVars, rulesVars, metricsVars, stateVars, clinerulesVars, memosVars>>

\* get_analyzer returned an analyzer; its analyze is called
Analyze ==
    /\ apc = "selected"
    /\ analyzer # "TypeError"
    /\ apc' = "analyzed"
    /\ result' \in analyze(analyzer, file_path, file, commit_message)
    /\ UNCHANGED <<file_path, file, commit_message, keywords, analyzer>>
    /\ UNCHANGED <<globVars, docVars, rulesVars, metricsVars, stateVars, clinerulesVars, memosVars>>

NextAnalyze ==
    \/ GetAnalyzer
    \/ Analyze

SpecAnalyze == InitAnalyze /\ [][NextAnalyze]_vars

\* ------------------------------------------------------------------------
\* State machine of ComplexityMetrics: the fields are drawn, the property
\* is_high_complexity is read once
\* ------------------------------------------------------------------------
\* values on both sides of the thresholds of is_high_complexity (the
\* values of tests/test_analyzers.py among them)
LineCounts == {0, 50, 100, 101, 150}
NestingDepths == {0, 2, 4, 5}
ComplexityScores == {0, 3, 10, 11}
OtherCounts == {0, 200}

MetricsInputs ==
    {ComplexityMetrics(lc, cl, nd, cs, fc, cc, pc) :
         lc \in LineCounts, cl \in OtherCounts, nd \in NestingDepths,
         cs \in ComplexityScores, fc \in OtherCounts, cc \in OtherCounts,
         pc \in OtherCounts}

InitMetrics ==
    /\ GlobIdle
    /\ DocIdle
    /\ RulesIdle
    /\ AnalyzeIdle
    /\ StateIdle
    /\ ClinerulesIdle
    /\ MemosIdle
    /\ metrics \in MetricsInputs
    /\ mpc = "start"
    /\ high = FALSE

IsHighComplexity ==
    /\ mpc = "start"
    /\ mpc' = "done"
    /\ high' = is_high_complexity(metrics)
    /\ UNCHANGED metrics
    /\ UNCHANGED <<globVars, docVars, rulesVars, analyzeVars, stateVars, clinerulesVars, memosVars>>

NextMetrics == IsHighComplexity

SpecMetrics == InitMetrics /\ [][NextMetrics]_vars

\* ------------------------------------------------------------------------
\* State machine of the state manager: two StateManagers, created for two
\* different project directories, are called in any order
\* ------------------------------------------------------------------------
InitState ==
    /\ GlobIdle
    /\ DocIdle
    /\ RulesIdle
    /\ AnalyzeIdle
    /\ MetricsIdle
    /\ ClinerulesIdle
    /\ MemosIdle
    /\ \E c1 \in ProjectSetups, c2 \in ProjectSetups :
           /\ c1.project_path # c2.project_path
           /\ managers = <<c1, c2>>
    /\ \E n \in PrefillLengths :
           /\ state_files = [d \in StateDirs |-> Prefilled(n)]
           /\ now = n + 1
    /\ sbefore = state_files
    /\ slast = NoStateCall
    /\ nops = 0
    /\ sprev = NoStateCall
    /\ unpushed = NoDiff

\* one call on manager m that leaves f in the manager's state file
StateCall(op, m, f) ==
    /\ nops < MaxStateOps
    /\ nops' = nops + 1
    /\ state_files' = [state_files EXCEPT ![state_dir(managers[m])] = f]
    /\ now' = now + 1
    /\ sbefore' = state_files
    /\ slast' = [op |-> op, mgr |-> m,
                 raised |-> KeyError(op, state_files[state_dir(managers[m])])]
    /\ sprev' = slast
    /\ UNCHANGED <<managers, unpushed>>
    /\ UNCHANGED <<globVars, docVars, rulesVars, analyzeVars, metricsVars, clinerulesVars, memosVars>>

SetPending ==
    \E m \in 1..2, reason \in Reasons :
        StateCall("set_pending", m,
                  set_pending(state_files[state_dir(managers[m])],
                              <<"traditional">>, reason, "abc", now))

ClearPending ==
    \E m \in 1..2 :
        StateCall("clear_pending", m,
                  clear_pending(state_files[state_dir(managers[m])], now))

AddToHistory ==
    \E m \in 1..2 :
        StateCall("add_to_history", m,
                  add_to_history(state_files[state_dir(managers[m])],
                                 <<"traditional">>, "update", now))

AddMemosRecord ==
    \E m \in 1..2 :
        StateCall("add_memos_record", m,
                  add_memos_record(state_files[state_dir(managers[m])],
                                   [content |-> "note"]))

Cleanup ==
    \E m \in 1..2 :
        StateCall("cleanup", m, cleanup(state_files[state_dir(managers[m])]))

NextState ==
    \/ SetPending
    \/ ClearPending
    \/ AddToHistory
    \/ AddMemosRecord
    \/ Cleanup

SpecState == InitState /\ [][NextState]_vars

\* ------------------------------------------------------------------------
\* State machine of the state manager on state files it did not write: the
\* state file of each project holds an empty JSON object or text that is
\* not JSON; then up to MaxStateOps calls in any order
\* ------------------------------------------------------------------------
StartStateFiles == {StateFile(EmptyObject), CorruptStateFile}

InitStateFile ==
    /\ GlobIdle
    /\ DocIdle
    /\ RulesIdle
    /\ AnalyzeIdle
    /\ MetricsIdle
    /\ ClinerulesIdle
    /\ MemosIdle
    /\ managers = << [project_path |-> <<"a", "proj">>, project_key |-> ""],
                     [project_path |-> <<"b", "tool">>, project_key |-> "mykey"] >>
    /\ state_files \in [StateDirs -> StartStateFiles]
    /\ now = 1
    /\ sbefore = state_files
    /\ slast = NoStateCall
    /\ nops = 0
    /\ sprev = NoStateCall
    /\ unpushed = NoDiff

IsPending ==
    \E m \in 1..2 :
        StateCall("is_pending", m, state_files[state_dir(managers[m])])

NextStateFile ==
    \/ IsPending
    \/ SetPending
    \/ ClearPending
    \/ AddToHistory

SpecStateFile == InitStateFile /\ [][NextStateFile]_vars

\* ------------------------------------------------------------------------
\* State machine of the command line: the commands check-pre-push and
\* update run in the first project, whose unpushed changes stay the same
\* (nothing is committed or pushed); StateManager calls are made in between
\* ------------------------------------------------------------------------
\* the diffs check_pre_push can get: git failing, nothing unpushed, and
\* unpushed commits whose messages hold a keyword or not and whose files
\* match rules of these layers
Diffs ==
    {Diff(TRUE, FALSE, FALSE, {}), Diff(FALSE, FALSE, FALSE, {})}
        \cup {Diff(FALSE, TRUE, k, ls) :
                  k \in BOOLEAN,
                  ls \in {{}, {"traditional"}, {"traditional", "config"}}}

\* the LAYERS argument of update
Requests == {{"traditional"}, {"config"}, {"memo"}, {"traditional", "config"},
             {"traditional", "memo"}}

InitCli ==
    /\ GlobIdle
    /\ DocIdle
    /\ RulesIdle
    /\ AnalyzeIdle
    /\ MetricsIdle
    /\ ClinerulesIdle
    /\ MemosIdle
    /\ managers = << [project_path |-> <<"a", "proj">>, project_key |-> ""],
                     [project_path |-> <<"b", "tool">>, project_key |-> "mykey"] >>
    /\ state_files = [d \in StateDirs |-> NoStateFile]
    /\ now = 1
    /\ sbefore = state_files
    /\ slast = NoStateCall
    /\ nops = 0
    /\ sprev = NoStateCall
    /\ unpushed \in Diffs

\* one command run in the first project; r is what the command did
CliCall(op, args, r) ==
    /\ nops < MaxStateOps
    /\ nops' = nops + 1
    /\ state_files' = [state_files EXCEPT ![state_dir(managers[1])] = r.file]
    /\ now' = now + 1
    /\ sbefore' = state_files
    /\ sprev' = slast
    /\ slast' = [op |-> op, mgr |-> 1, raised |-> r.raised, exit |-> r.exit,
                 args |-> args, updated |-> r.updated]
    /\ UNCHANGED <<managers, unpushed>>
    /\ UNCHANGED <<globVars, docVars, rulesVars, analyzeVars, metricsVars, clinerulesVars, memosVars>>

CheckPrePush ==
    CliCall("check_pre_push", {},
            check_pre_push(state_files[state_dir(managers[1])], unpushed, now))

\* traditional_ok and config_ok are what _update_traditional_docs and
\* _update_config_rules return: whether the documents could be updated
Update ==
    \E requested \in Requests, traditional_ok \in BOOLEAN, config_ok \in BOOLEAN :
        CliCall("update", requested,
                update(state_files[state_dir(managers[1])], requested,
                       traditional_ok, config_ok, now))

ClearPendingMemos ==
    \E m \in 1..2, only_synced \in BOOLEAN :
        StateCall("clear_pending_memos", m,
                  clear_pending_memos(state_files[state_dir(managers[m])], only_synced))

MarkMemosRecordSynced ==
    \E m \in 1..2, record_index \in 0..1 :
        StateCall("mark_memos_record_synced", m,
                  mark_memos_record_synced(state_files[state_dir(managers[m])],
                                           record_index))

NextCli ==
    \/ CheckPrePush
    \/ Update
    \/ SetPending
    \/ ClearPending
    \/ AddToHistory
    \/ AddMemosRecord
    \/ ClearPendingMemos
    \/ MarkMemosRecordSynced

SpecCli == InitCli /\ [][NextCli]_vars

\* ------------------------------------------------------------------------
\* State machine of the config file updater: a ConfigFileUpdater, the
\* .clinerules file of a project, then up to MaxRuleCalls calls
\* ------------------------------------------------------------------------
InitClinerules ==
    /\ GlobIdle
    /\ DocIdle
    /\ RulesIdle
    /\ AnalyzeIdle
    /\ MetricsIdle
    /\ StateIdle
    /\ MemosIdle
    /\ cr_dry_run \in BOOLEAN
    /\ cr_file \in StartRuleFiles
    /\ cr_before = cr_file
    /\ cr_last = [op |-> "none"]
    /\ cr_prev = [op |-> "none"]
    /\ cr_calls = 0

UpdateClinerules ==
    \E patterns \in PatternLists, existing_content \in ExistingContents :
        /\ cr_calls < MaxRuleCalls
        /\ cr_calls' = cr_calls + 1
        /\ cr_file' = update_clinerules(cr_file, cr_dry_run, patterns, existing_content).file
        /\ cr_before' = cr_file
        /\ cr_prev' = cr_last
        /\ cr_last' = [op |-> "update_clinerules", patterns |-> patterns,
                       existing_content |-> existing_content,
                       res |-> update_clinerules(cr_file, cr_dry_run, patterns,
                                                 existing_content).res]
        /\ UNCHANGED cr_dry_run
        /\ UNCHANGED <<globVars, docVars, rulesVars, analyzeVars, metricsVars, stateVars, memosVars>>

NextClinerules == UpdateClinerules

SpecClinerules == InitClinerules /\ [][NextClinerules]_vars

\* ------------------------------------------------------------------------
\* State machine of the MemOS client: a client whose cache file was loaded,
\* then up to MaxMemosCalls calls of add_record and sync_offline_cache; the
\* for loop of sync_offline_cache takes one step per iteration
\* ------------------------------------------------------------------------
MemosRecords == {"Test 0", "Test 1"}

\* the caches _load_cache can find in the cache file
StartCaches == {<<>>, <<"Test 0">>, <<"Test 0", "Test 1">>}

\* _detect_mcp_available is False for a disabled client
MemosClients ==
    {MemOSClient(k, e, a) : k \in {"http", "mcp"}, e \in BOOLEAN, a \in BOOLEAN}
        \ {MemOSClient("mcp", FALSE, TRUE)}

InitMemos ==
    /\ GlobIdle
    /\ DocIdle
    /\ RulesIdle
    /\ AnalyzeIdle
    /\ MetricsIdle
    /\ StateIdle
    /\ ClinerulesIdle
    /\ mc_client \in MemosClients
    /\ mc_cache \in StartCaches
    /\ mc_file = mc_cache
    /\ mc_sync = NoSync
    /\ mc_calls = 0

MemosUnchanged ==
    UNCHANGED <<globVars, docVars, rulesVars, analyzeVars, metricsVars, stateVars, clinerulesVars>>

AddRecord ==
    \E record \in MemosRecords, ok \in RequestOutcomes(mc_client) :
        /\ mc_sync.pc # "loop"
        /\ mc_calls < MaxMemosCalls
        /\ Len(add_record(mc_client, mc_cache, record, ok).cache) <= MaxCache
        /\ mc_calls' = mc_calls + 1
        /\ mc_cache' = add_record(mc_client, mc_cache, record, ok).cache
        /\ mc_file' = IF mc_cache' = mc_cache THEN mc_file ELSE mc_cache'
        /\ mc_sync' = NoSync
        /\ UNCHANGED mc_client
        /\ MemosUnchanged

SyncOfflineCache ==
    /\ mc_sync.pc # "loop"
    /\ mc_calls < MaxMemosCalls
    /\ mc_calls' = mc_calls + 1
    /\ mc_sync' = SyncEntered(mc_client, mc_cache)
    /\ UNCHANGED <<mc_client, mc_cache, mc_file>>
    /\ MemosUnchanged

\* the loop body: the "http" client calls add_record, which appends to the
\* list the loop iterates over; the "mcp" client calls _mcp_add_message
SyncStep ==
    \E ok \in RequestOutcomes(mc_client) :
        /\ mc_sync.pc = "loop"
        /\ mc_sync.iter <= Len(mc_cache)
        /\ IF mc_client.kind = "http"
           THEN /\ Len(add_record(mc_client, mc_cache, mc_cache[mc_sync.iter], ok).cache)
                       <= MaxCache
                /\ mc_cache' = add_record(mc_client, mc_cache,
                                          mc_cache[mc_sync.iter], ok).cache
                /\ mc_sync' = SyncIterated(mc_sync, mc_cache[mc_sync.iter],
                                  add_record(mc_client, mc_cache,
                                             mc_cache[mc_sync.iter], ok).res)
           ELSE /\ mc_cache' = mc_cache
                /\ mc_sync' = SyncIterated(mc_sync, mc_cache[mc_sync.iter], ok)
        /\ mc_file' = IF mc_cache' = mc_cache THEN mc_file ELSE mc_cache'
        /\ UNCHANGED <<mc_client, mc_calls>>
        /\ MemosUnchanged

\* the iterator is exhausted: the cache becomes remaining and is saved
SyncEnd ==
    /\ mc_sync.pc = "loop"
    /\ mc_sync.iter > Len(mc_cache)
    /\ mc_cache' = mc_sync.remaining
    /\ mc_file' = mc_sync.remaining
    /\ mc_sync' = SyncReturned(mc_sync)
    /\ UNCHANGED <<mc_client, mc_calls>>
    /\ MemosUnchanged

NextMemos ==
    \/ AddRecord
    \/ SyncOfflineCache
    \/ SyncStep
    \/ SyncEnd

SpecMemos == InitMemos /\ [][NextMemos]_vars

\* ------------------------------------------------------------------------
\* State machine of append_table_row on files whose section has a table:
\* a DocumentUpdater that writes, a start file, then up to MaxCalls calls
\* ------------------------------------------------------------------------
\* the table of tests/integration/test_workflow.py (test_document_updater_
\* table_row), alone, followed by text or by another section, and without
\* data rows
TableDocs ==
    { << <<"#", " ", "T", "e", "s", "t">>, <<>>, <<"#", "#", " ", "S", "e", "r", "v", "i", "c", "e", "s">>, <<>>,
         <<"|", " ", "N", "a", "m", "e", " ", "|", " ", "T", "y", "p", "e", " ", "|">>, <<"|", "-", "-", "-", "-", "-", "-", "|", "-", "-", "-", "-", "-", "-", "|">>, <<"|", " ", "a", "u", "t", "h", " ", "|", " ", "s", "e", "r", "v", "i", "c", "e", " ", "|">>, <<>> >>,
      << <<"#", "#", " ", "S", "e", "r", "v", "i", "c", "e", "s">>, <<>>,
         <<"|", " ", "N", "a", "m", "e", " ", "|", " ", "T", "y", "p", "e", " ", "|">>, <<"|", " ", "-", "-", "-", " ", "|", " ", "-", "-", "-", " ", "|">>, <<"|", " ", "a", "u", "t", "h", " ", "|", " ", "s", "e", "r", "v", "i", "c", "e", " ", "|">> >>,
      << <<"#", "#", " ", "S", "e", "r", "v", "i", "c", "e", "s">>, <<>>,
         <<"|", " ", "N", "a", "m", "e", " ", "|", " ", "T", "y", "p", "e", " ", "|">>, <<"|", " ", "-", "-", "-", " ", "|", " ", "-", "-", "-", " ", "|">>, <<"|", " ", "a", "u", "t", "h", " ", "|", " ", "s", "e", "r", "v", "i", "c", "e", " ", "|">>,
         <<"|", " ", "u", "s", "e", "r", " ", "|", " ", "s", "e", "r", "v", "i", "c", "e", " ", "|">>, <<>>, <<"#", "#", " ", "O", "t", "h", "e", "r">>, <<>>, <<"O", "l", "d", " ", "c", "o", "n", "t", "e", "n", "t">> >>,
      << <<"#", "#", " ", "S", "e", "r", "v", "i", "c", "e", "s">>, <<>>, <<"|", " ", "N", "a", "m", "e", " ", "|", " ", "T", "y", "p", "e", " ", "|">>, <<"|", " ", "-", "-", "-", " ", "|", " ", "-", "-", "-", " ", "|">>, <<>> >> }

\* row_data whose first value is new, is in a data row, is a column name,
\* or is part of the separator row
TableRowDatas ==
    { << <<Name, <<"u", "s", "e", "r">>>>, <<Type, <<"s", "e", "r", "v", "i", "c", "e">>>> >>,
      << <<Name, <<"g", "a", "t", "e", "w", "a", "y">>>>, <<Type, <<"s", "e", "r", "v", "i", "c", "e">>>> >>,
      << <<Name, <<"a", "u", "t", "h">>>>, <<Type, <<"l", "i", "b", "r", "a", "r", "y">>>> >>,
      << <<Name, <<"T", "y", "p", "e">>>>, <<Type, <<"s", "e", "r", "v", "i", "c", "e">>>> >>,
      << <<Name, <<"-", "-">>>>, <<Type, <<"s", "e", "r", "v", "i", "c", "e">>>> >> }

InitTable ==
    /\ GlobIdle
    /\ RulesIdle
    /\ AnalyzeIdle
    /\ MetricsIdle
    /\ StateIdle
    /\ ClinerulesIdle
    /\ MemosIdle
    /\ dry_run = FALSE
    /\ backup \in BOOLEAN
    /\ perm = "rw"
    /\ target \in {File(d) : d \in TableDocs}
    /\ parentDir = TRUE
    /\ bak = Absent
    /\ before = [dir |-> parentDir, target |-> target, bak |-> bak]
    /\ last = NoCall
    /\ prev = NoCall
    /\ ncalls = 0

AppendRowToTable ==
    \E rd \in TableRowDatas :
        Call("append_table_row", <<Services, rd, <<>>>>,
             append_table_row(Ctx(parentDir, target, bak), Services, rd, <<>>))

NextTable == AppendRowToTable

SpecTable == InitTable /\ [][NextTable]_vars

\* ------------------------------------------------------------------------
\* Properties of the document mutation engine (checked under Spec)
\* ------------------------------------------------------------------------
\* the last two calls were the same mutation with the same arguments, both
\* returned, and the updater writes (no dry run)
SameCallTwice(op) ==
    /\ ~dry_run
    /\ last.op = op
    /\ prev.op = op
    /\ last.args = prev.args
    /\ last.outcome = "returned"
    /\ prev.outcome = "returned"

\* C1: two successive append_table_row calls with identical arguments leave
\* the target file as a single call leaves it: the second call changes
\* nothing.
C1_AppendTableRowIdempotent ==
    SameCallTwice("append_table_row") => target = before.target

\* the lines of a section: from the line after its header to the next
\* header of level two or deeper (or the end), blank lines at both ends
\* dropped
RECURSIVE TrimBlank(_)
TrimBlank(lines) ==
    IF lines = <<>> THEN <<>>
    ELSE IF Strip(lines[1]) = <<>> THEN TrimBlank(Tail(lines))
    ELSE IF Strip(lines[Len(lines)]) = <<>> THEN TrimBlank(SubSeq(lines, 1, Len(lines) - 1))
    ELSE lines

BodyFrom(lines, section_index, next_section) ==
    TrimBlank(SubSeq(lines, section_index + 2, OrLen(lines, next_section)))

SectionBody(lines, section) ==
    BodyFrom(lines, _find_section_index(lines, section, 0),
             _find_next_section_index(lines, _find_section_index(lines, section, 0) + 1))

\* C2: two successive update_section calls with identical (section,
\* content) leave the section with the body a single call leaves: the
\* second call does not add the content again.
C2_UpdateSectionIdempotent ==
    (SameCallTwice("update_section") /\ last.args[3] = <<>>)
        => SectionBody(target.lines, last.args[1]) = SectionBody(before.target.lines, last.args[1])

\* C3: a mutation that cannot write its target returns an UpdateResult
\* (success = false): no call ends with an exception escaping it.  In the
\* model a write that the filesystem refuses is the only source of
\* last.outcome = "raised".
C3_FailureInBand ==
    last.outcome # "raised"

\* C4: with dry-run off and backup on, a mutation that overwrites an
\* existing target leaves in <target>.bak exactly the content the target
\* had right before the call.
C4_BackupHoldsPreviousContent ==
    (~dry_run /\ backup /\ last.overwrote)
        => (bak.exists /\ before.target.exists /\ bak = before.target)

\* a second call overwrote the target and replaced the first call's backup
C4_Witness ==
    /\ ~dry_run
    /\ backup
    /\ last.overwrote
    /\ last.outcome = "returned"
    /\ before.bak.exists
    /\ bak # before.bak
    /\ bak = before.target
    /\ target # before.target

\* C5: in dry-run mode a mutation writes nothing: target, backup and
\* directory are after the call what they were before it.
C5_DryRunWritesNothing ==
    dry_run => FsNow = before

\* C6: in dry-run mode every mutation returns success = true and a message
\* that says that this was a dry run.
C6_DryRunMessage ==
    (dry_run /\ last.outcome = "returned")
        => (last.res.success /\ last.res.message \in {"Dry run - no changes made"})

\* one table line with the given cells
RECURSIVE TableLine(_)
TableLine(cells) ==
    IF cells = <<>> THEN <<"|">>
    ELSE <<"|", " ">> \o Head(cells) \o <<" ">> \o TableLine(Tail(cells))

\* the columns of the table of a call: table_headers, or the keys of row_data
\* when there are none
ColumnsOf(args) ==
    IF args[3] # <<>> THEN args[3]
    ELSE [i \in 1..Len(args[2]) |-> args[2][i][1]]

\* the value of column h in row_data, empty when it has none
ValueOf(row_data, h) ==
    IF \E i \in 1..Len(row_data) : row_data[i][1] = h
    THEN (CHOOSE pr \in {row_data[i] : i \in 1..Len(row_data)} : pr[1] = h)[2]
    ELSE <<>>

Dashes(n) == [i \in 1..n |-> <<"-", "-", "-">>]

\* C18: append_table_row on a target that does not exist creates the file
\* (and its parent directory) with the section header and a table of one
\* header row, one separator row and exactly one data row holding row_data's
\* values in column order; for section Services and row_data {Name: auth,
\* Type: service} the table has two columns and the data row is
\* "| auth | service |".
C18_CreateTableFile ==
    (/\ last.op = "append_table_row"
     /\ last.outcome = "returned"
     /\ ~before.target.exists
     /\ ~dry_run) =>
        /\ parentDir
        /\ target.exists
        /\ last.res.success
        /\ Len(target.lines) = 8
        /\ target.lines[1] = <<"#", " ", "D", "o", "c", "u", "m", "e", "n", "t", "a", "t", "i", "o", "n">>
        /\ target.lines[2] = <<>>
        /\ target.lines[3] = <<"#", "#", " ">> \o last.args[1]
        /\ target.lines[4] = <<>>
        /\ target.lines[5] = TableLine(ColumnsOf(last.args))
        /\ target.lines[6] = TableLine(Dashes(Len(ColumnsOf(last.args))))
        /\ target.lines[7] =
               TableLine([i \in 1..Len(ColumnsOf(last.args)) |->
                              ValueOf(last.args[2], ColumnsOf(last.args)[i])])
        /\ target.lines[8] = <<>>
        /\ (last.args = <<<<"S", "e", "r", "v", "i", "c", "e", "s">>,
                          << <<<<"N", "a", "m", "e">>, <<"a", "u", "t", "h">>>>, <<<<"T", "y", "p", "e">>, <<"s", "e", "r", "v", "i", "c", "e">>>> >>,
                          <<>> >>) =>
               /\ target.lines[3] = <<"#", "#", " ", "S", "e", "r", "v", "i", "c", "e", "s">>
               /\ target.lines[5] = <<"|", " ", "N", "a", "m", "e", " ", "|", " ", "T", "y", "p", "e", " ", "|">>
               /\ target.lines[6] = <<"|", " ", "-", "-", "-", " ", "|", " ", "-", "-", "-", " ", "|">>
               /\ target.lines[7] = <<"|", " ", "a", "u", "t", "h", " ", "|", " ", "s", "e", "r", "v", "i", "c", "e", " ", "|">>

\* the scenario of the claim: the parent directory was missing too, and the
\* created file ends with the one data row "| auth | service |"
C18_Witness ==
    /\ last.op = "append_table_row"
    /\ last.outcome = "returned"
    /\ last.args = <<Services, << <<Name, <<"a", "u", "t", "h">>>>, <<Type, <<"s", "e", "r", "v", "i", "c", "e">>>> >>, <<>> >>
    /\ ~before.target.exists
    /\ ~before.dir
    /\ ~dry_run
    /\ parentDir
    /\ target.exists
    /\ Len(target.lines) = 8
    /\ target.lines[7] = <<"|", " ", "a", "u", "t", "h", " ", "|", " ", "s", "e", "r", "v", "i", "c", "e", " ", "|">>

\* the level of a Markdown header line: the number of its leading "#" when
\* a space follows them, 0 for a line that is no header
HeaderLevel(line) ==
    IF \E n \in 1..(Len(line) - 1) :
           /\ \A k \in 1..n : line[k] = "#"
           /\ line[n + 1] = " "
    THEN CHOOSE n \in 1..(Len(line) - 1) :
             /\ \A k \in 1..n : line[k] = "#"
             /\ line[n + 1] = " "
    ELSE 0

\* line i of lines is the header of the section (at level 2, 3 or 4)
IsSectionHeader(lines, i, section) ==
    /\ HeaderLevel(Strip(lines[i])) \in 2..4
    /\ Lower(SubSeq(Strip(lines[i]), HeaderLevel(Strip(lines[i])) + 2, Len(Strip(lines[i]))))
           = Lower(section)

HasSection(lines, section) ==
    \E i \in 1..Len(lines) : IsSectionHeader(lines, i, section)

\* the line of the first header of the section
SectionLine(lines, section) ==
    CHOOSE i \in 1..Len(lines) :
        /\ IsSectionHeader(lines, i, section)
        /\ \A j \in 1..(i - 1) : ~IsSectionHeader(lines, j, section)

\* the line of the next header of equal or higher level after line i,
\* Len(lines) + 1 when the section runs to the end of the file
SectionEnd(lines, i) ==
    IF \E j \in (i + 1)..Len(lines) :
           HeaderLevel(lines[j]) \in 1..HeaderLevel(Strip(lines[i]))
    THEN CHOOSE j \in (i + 1)..Len(lines) :
             /\ HeaderLevel(lines[j]) \in 1..HeaderLevel(Strip(lines[i]))
             /\ \A k \in (i + 1)..(j - 1) :
                    HeaderLevel(lines[k]) \notin 1..HeaderLevel(Strip(lines[i]))
    ELSE Len(lines) + 1

IsNonBlank(line) == Strip(line) # <<>>

\* the file with the lines strictly between line i and line j replaced
ReplacedBetween(lines, i, j, new_lines) ==
    SubSeq(lines, 1, i) \o new_lines \o SubSeq(lines, j, Len(lines))

\* C23: update_section on a file that has the section replaces exactly the
\* lines strictly between the section header and the next header of equal
\* or higher level (or the end of the file) with the new content; the
\* header, the lines before it and the lines from that next header on are
\* unchanged.  Blank lines are not counted: only the lines that hold text
\* are compared.
C23_UpdateSectionFrame ==
    (/\ last.op = "update_section"
     /\ last.outcome = "returned"
     /\ last.args[3] = <<>>
     /\ ~dry_run
     /\ before.target.exists
     /\ HasSection(before.target.lines, last.args[1])) =>
        SelectSeq(target.lines, IsNonBlank)
            = SelectSeq(ReplacedBetween(before.target.lines,
                                        SectionLine(before.target.lines, last.args[1]),
                                        SectionEnd(before.target.lines,
                                                   SectionLine(before.target.lines, last.args[1])),
                                        last.args[2]),
                        IsNonBlank)

\* C26: prepend_content with after_header=True on an existing file that
\* starts with a header line keeps that title line above the inserted
\* content: the title is still the first line and the content lies below
\* it, also when the file holds only header and blank lines.
C26_TitleStaysOnTop ==
    (/\ last.op = "prepend_content"
     /\ last.args[2] = TRUE
     /\ last.outcome = "returned"
     /\ ~dry_run
     /\ before.target.exists
     /\ before.target.lines # <<>>
     /\ HeaderLevel(before.target.lines[1]) > 0) =>
        /\ target.lines[1] = before.target.lines[1]
        /\ \E p \in 2..Len(target.lines) :
               SubSeq(target.lines, p, p + Len(last.args[1]) - 1) = last.args[1]

\* ------------------------------------------------------------------------
\* Properties of append_table_row on an existing table (checked under
\* SpecTable)
\* ------------------------------------------------------------------------
IsTableRow(line) == Strip(line) # <<>> /\ Strip(line)[1] = "|"

\* a separator row: a table row made of "|", "-", ":" and blanks only
IsSeparatorRow(line) ==
    /\ IsTableRow(line)
    /\ \A k \in 1..Len(line) : line[k] \in {"|", "-", ":", " "}

\* the section at line i has a table: a table row before the next header
HasTable(lines, i) ==
    \E j \in (i + 1)..Len(lines) :
        /\ IsTableRow(lines[j])
        /\ \A k \in (i + 1)..(j - 1) : HeaderLevel(lines[k]) = 0

\* the header row of that table
TableTop(lines, i) ==
    CHOOSE j \in (i + 1)..Len(lines) :
        /\ IsTableRow(lines[j])
        /\ \A k \in (i + 1)..(j - 1) : ~IsTableRow(lines[k])

\* the rows of the table whose header row is line top
TableRows(lines, top) ==
    {j \in top..Len(lines) : \A k \in top..j : IsTableRow(lines[k])}

\* its data rows: the rows below the header row that are no separator
DataRows(lines, top) ==
    {j \in TableRows(lines, top) : j > top /\ ~IsSeparatorRow(lines[j])}

\* where the first data row of the table is, or would be
FirstDataRow(lines, top) ==
    IF top + 1 \in TableRows(lines, top) /\ IsSeparatorRow(lines[top + 1])
    THEN top + 2 ELSE top + 1

\* lines with one table row put in as line p
OneRowInserted(lines, new_lines, p) ==
    /\ Len(new_lines) = Len(lines) + 1
    /\ IsTableRow(new_lines[p])
    /\ SubSeq(new_lines, 1, p - 1) = SubSeq(lines, 1, p - 1)
    /\ SubSeq(new_lines, p + 1, Len(new_lines)) = SubSeq(lines, p, Len(lines))

\* the call of append_table_row on the table with header row top
RowAdded(lines, top, first_value) ==
    IF \E j \in DataRows(lines, top) : Contains(lines[j], first_value)
    THEN target.lines = lines /\ last.res.success
    ELSE OneRowInserted(lines, target.lines, FirstDataRow(lines, top))

\* C24: on a section that already has a table append_table_row changes
\* nothing and reports success exactly when a data row of the table contains
\* the first value of row_data; otherwise it inserts exactly one row, as the
\* first data row of the table.
C24_RowExistsNoOp ==
    (/\ last.op = "append_table_row"
     /\ last.outcome = "returned"
     /\ ~dry_run
     /\ before.target.exists
     /\ HasSection(before.target.lines, last.args[1])
     /\ HasTable(before.target.lines, SectionLine(before.target.lines, last.args[1]))) =>
        RowAdded(before.target.lines,
                 TableTop(before.target.lines,
                          SectionLine(before.target.lines, last.args[1])),
                 last.args[2][1][2])

\* C25: when the section exists and no table follows it before the next
\* section header, append_table_row puts the new table into that section:
\* afterwards a table lies between the section's header and the next
\* header, whatever line follows the header.  (Checked under Spec.)
C25_TableInsideSection ==
    (/\ last.op = "append_table_row"
     /\ last.outcome = "returned"
     /\ ~dry_run
     /\ before.target.exists
     /\ HasSection(before.target.lines, last.args[1])
     /\ ~HasTable(before.target.lines, SectionLine(before.target.lines, last.args[1]))) =>
        /\ HasSection(target.lines, last.args[1])
        /\ SectionLine(target.lines, last.args[1])
               = SectionLine(before.target.lines, last.args[1])
        /\ HasTable(target.lines, SectionLine(target.lines, last.args[1]))

\* ------------------------------------------------------------------------
\* Properties of the glob matcher (checked under SpecGlob)
\* ------------------------------------------------------------------------
\* The glob rules for a pattern without "**": "*" is a run of characters
\* other than "/", "?" is one character, every other character is itself;
\* the whole path is matched.
RECURSIVE SimpleGlob(_, _)
SimpleGlob(pat, p) ==
    IF pat = <<>> THEN p = <<>>
    ELSE IF pat[1] = "*"
         THEN \/ SimpleGlob(Tail(pat), p)
              \/ p # <<>> /\ p[1] # "/" /\ SimpleGlob(pat, Tail(p))
    ELSE IF pat[1] = "?"
         THEN p # <<>> /\ SimpleGlob(Tail(pat), Tail(p))
    ELSE p # <<>> /\ p[1] = pat[1] /\ SimpleGlob(Tail(pat), Tail(p))

HasDoubleStar(pat) == Contains(pat, <<"*", "*">>)

Count(s, c) == Cardinality({i \in 1..Len(s) : s[i] = c})

\* pat is A/**/B with no "**" in A and none in B, the "/**/" at k..k+3
MidSplits(pat) ==
    {k \in 1..(Len(pat) - 3) :
        /\ SubSeq(pat, k, k + 3) = <<"/", "*", "*", "/">>
        /\ ~HasDoubleStar(SubSeq(pat, 1, k - 1))
        /\ ~HasDoubleStar(SubSeq(pat, k + 4, Len(pat)))}

\* p is a match of A, then "/", then nothing or something that ends with
\* "/", then a match of B
MidMatch(A, B, p) ==
    \E i \in 1..Len(p) :
        /\ p[i] = "/"
        /\ SimpleGlob(A, SubSeq(p, 1, i - 1))
        /\ \E j \in i..Len(p) :
               /\ p[j] = "/"
               /\ SimpleGlob(B, SubSeq(p, j + 1, Len(p)))

\* C7: a pattern A/**/B matches a path exactly when the path is A/B or
\* A/<directories>/B; in particular only paths that begin with A/.
C7_MiddleDoubleStar ==
    gpc = "done" =>
        \A k \in MidSplits(pattern) :
            matched = MidMatch(SubSeq(pattern, 1, k - 1),
                               SubSeq(pattern, k + 4, Len(pattern)), path)

\* C8: a pattern **/R matches every path that is zero or more leading
\* directories followed by a match of R.
C8_LeadingDoubleStar ==
    (gpc = "done" /\ StartsWith(pattern, <<"*", "*", "/">>))
        => \A k \in 0..Len(path) :
               ((k = 0 \/ path[k] = "/")
                /\ glob_match(SubSeq(pattern, 4, Len(pattern)), SubSeq(path, k + 1, Len(path))))
                   => matched

\* C9: a pattern P** matches every path that is a match of P followed by
\* any further characters.
C9_TrailingDoubleStar ==
    (gpc = "done" /\ Len(pattern) >= 2
     /\ SubSeq(pattern, Len(pattern) - 1, Len(pattern)) = <<"*", "*">>)
        => \A k \in 0..Len(path) :
               glob_match(SubSeq(pattern, 1, Len(pattern) - 2), SubSeq(path, 1, k))
                   => matched

\* C10: a pattern whose only wildcard is "*" matches exactly the paths the
\* simple glob rules give (whole path, case-sensitive, "*" within one
\* segment), so never a path whose number of "/" differs from its own.
C10_SingleStar ==
    (gpc = "done" /\ ~HasDoubleStar(pattern) /\ Count(pattern, "?") = 0)
        => /\ matched = SimpleGlob(pattern, path)
           /\ matched => Count(path, "/") = Count(pattern, "/")

\* glob_match("*.py", "src/main.py") was evaluated and gave False
C10_Witness ==
    /\ gpc = "done"
    /\ pattern = <<"*", ".", "p", "y">>
    /\ path = <<"s", "r", "c", "/", "m", "a", "i", "n", ".", "p", "y">>
    /\ ~matched

\* ------------------------------------------------------------------------
\* Properties of the rule engine (checked under SpecRules)
\* ------------------------------------------------------------------------
\* The glob rules of the Glob Matcher: "*" is a run of characters other
\* than "/", "?" is one character, a leading "**/" is zero or more leading
\* directories, "/**/" in the middle is "/" or "/<directories>/", any other
\* "**" is any run of characters; the whole path is matched.
RECURSIVE GlobRule(_, _, _)
GlobRule(pat, p, atStart) ==
    IF pat = <<>> THEN p = <<>>
    ELSE IF atStart /\ StartsWith(pat, <<"*", "*", "/">>)
         THEN \E k \in 0..Len(p) :
                  /\ k = 0 \/ p[k] = "/"
                  /\ GlobRule(SubSeq(pat, 4, Len(pat)), SubSeq(p, k + 1, Len(p)), FALSE)
    ELSE IF StartsWith(pat, <<"/", "*", "*", "/">>)
         THEN /\ p # <<>> /\ p[1] = "/"
              /\ \E j \in 1..Len(p) :
                     /\ p[j] = "/"
                     /\ GlobRule(SubSeq(pat, 5, Len(pat)), SubSeq(p, j + 1, Len(p)), FALSE)
    ELSE IF StartsWith(pat, <<"*", "*">>)
         THEN \E k \in 0..Len(p) :
                  GlobRule(SubSeq(pat, 3, Len(pat)), SubSeq(p, k + 1, Len(p)), FALSE)
    ELSE IF pat[1] = "*"
         THEN \/ GlobRule(Tail(pat), p, FALSE)
              \/ p # <<>> /\ p[1] # "/" /\ GlobRule(pat, Tail(p), FALSE)
    ELSE IF pat[1] = "?"
         THEN p # <<>> /\ GlobRule(Tail(pat), Tail(p), FALSE)
    ELSE p # <<>> /\ p[1] = pat[1] /\ GlobRule(Tail(pat), Tail(p), FALSE)

\* the rules of rs whose pattern matches p, each once, in the order of rs
RECURSIVE RulesMatching(_, _)
RulesMatching(rs, p) ==
    IF rs = <<>> THEN <<>>
    ELSE (IF GlobRule(Head(rs).pattern, p, TRUE) THEN <<Head(rs)>> ELSE <<>>)
             \o RulesMatching(Tail(rs), p)

\* C11: get_rules_for_pattern(path) returns exactly the configured rules
\* whose pattern glob-matches path, each once and in configuration order
\* (the empty list when none matches).
C11_RulesForPattern ==
    rpc = "done" => matching = RulesMatching(rules, rpath)

\* ------------------------------------------------------------------------
\* Properties of the analyzers (checked under SpecAnalyze)
\* ------------------------------------------------------------------------
\* C12: get_analyzer is total and ordered: it returns the first of the
\* Python, JavaScript/TypeScript and Bash analyzers whose can_analyze is
\* true, and a working generic analyzer for a path none of them claims.
C12_GetAnalyzerTotal ==
    apc # "start" =>
        analyzer = (IF PythonCanAnalyze(file_path) THEN "Python"
                    ELSE IF JavaScriptCanAnalyze(file_path) THEN "JavaScript/TypeScript"
                    ELSE IF BashCanAnalyze(file_path, file) THEN "Bash"
                    ELSE "Generic")

\* the Python analyzer was handed a readable file that ast.parse rejects
PySyntaxError ==
    analyzer = "Python" /\ file.exists /\ ~ast_parse(file.lines).ok

\* C13: analyzing a Python file with a syntax error returns, whatever the
\* commit message, a result with layers = ["traditional"], no actions, no
\* functions, no classes and the complexity of the generic line-based
\* heuristic; the call always returns.
C13_SyntaxErrorDegrades ==
    /\ (apc = "selected" /\ PySyntaxError)
           => analyze(analyzer, file_path, file, commit_message) # {}
    /\ (apc = "analyzed" /\ PySyntaxError)
           => /\ result.layers = <<"traditional">>
              /\ result.actions = <<>>
              /\ result.functions = <<>>
              /\ result.classes = <<>>
              /\ result.complexity # NoMetrics
              /\ result.complexity = calculate_complexity(file.lines)

\* a file that defines a function and then fails to parse was analyzed
\* under a commit message that has a troubleshooting keyword
C13_Witness ==
    /\ apc = "analyzed"
    /\ PySyntaxError
    /\ file.lines = <<<<"d", "e", "f", " ", "f", "(", ")", ":">>, <<" ", " ", " ", " ", "p", "a", "s", "s">>, <<"d", "e", "f", " ", "f", "(", ":">>>>
    /\ AnyIn({<<"f", "i", "x">>}, Lower(commit_message))
    /\ result.via = "syntax_error"

\* C14: a source made of k nested if blocks, in the layouts of its
\* language, is reported with nesting_depth = k, and the depth counter of
\* the line-scanning analyzers is never below 0.
C14_NestingDepth ==
    (apc = "analyzed" /\ result.via = "full") =>
        /\ \A k \in 0..MaxNest :
               /\ (analyzer = "Python" /\ file.lines = NestedPy(k))
                      => result.complexity.nesting_depth = k
               /\ (analyzer = "JavaScript/TypeScript"
                   /\ file.lines \in {NestedJsSameLine(k), NestedJsNextLine(k)})
                      => result.complexity.nesting_depth = k
               /\ (analyzer = "Bash"
                   /\ file.lines \in {NestedShSameLine(k), NestedShNextLine(k)})
                      => result.complexity.nesting_depth = k
        /\ analyzer # "Python" =>
               \A i \in 1..Len(file.lines) :
                   NestingLoop(file.lines, 1, 0, 0, <<>>, analyzer).trace[i] >= 0

\* the configured troubleshooting and decision keywords
MemoKeywords ==
    {keywords.troubleshooting[i] : i \in 1..Len(keywords.troubleshooting)}
        \cup {keywords.decisions[i] : i \in 1..Len(keywords.decisions)}

\* C16: detect_layers returns a list with "traditional" exactly once, and
\* with "memo" exactly when the commit message contains, whatever the case
\* of its letters, a configured troubleshooting or decision keyword.
C16_DetectLayers ==
    (apc = "analyzed" /\ result.via = "full") =>
        /\ Cardinality({i \in 1..Len(result.layers) : result.layers[i] = "traditional"}) = 1
        /\ (\E i \in 1..Len(result.layers) : result.layers[i] = "memo")
               <=> AnyIn(MemoKeywords, Lower(commit_message))

\* C17: a result whose complexity is present and high has, among its
\* actions, a complexity note appended to a docs file.
C17_HighComplexityNote ==
    (apc = "analyzed" /\ result.via # "empty" /\ is_high_complexity(result.complexity)) =>
        \E i \in 1..Len(result.actions) :
            /\ result.actions[i].action = "append_complexity_note"
            /\ result.actions[i].target \in {"docs/architecture.md", "docs/tools.md"}

\* ------------------------------------------------------------------------
\* Properties of ComplexityMetrics (checked under SpecMetrics)
\* ------------------------------------------------------------------------
\* C15: is_high_complexity is true exactly when line_count > 100 or
\* nesting_depth > 4 or complexity_score > 10 (101 lines are high, 100 are
\* not; depth 5 is high, 4 is not), and the other fields play no part.
C15_HighComplexityThresholds ==
    mpc = "done" =>
        /\ high <=> (\/ metrics.line_count > 100
                     \/ metrics.nesting_depth > 4
                     \/ metrics.complexity_score > 10)
        /\ metrics.line_count = 101 => high
        /\ metrics.nesting_depth = 5 => high
        /\ (metrics.line_count = 100 /\ metrics.nesting_depth = 4
            /\ metrics.complexity_score = 10) => ~high
        /\ \A m \in MetricsInputs :
               (/\ m.line_count = metrics.line_count
                /\ m.nesting_depth = metrics.nesting_depth
                /\ m.complexity_score = metrics.complexity_score)
                   => is_high_complexity(m) = high

\* metrics at all three thresholds, with large other fields, were found
\* not to be high
C15_Witness ==
    /\ mpc = "done"
    /\ metrics = ComplexityMetrics(100, 200, 4, 10, 200, 200, 200)
    /\ ~high

\* ------------------------------------------------------------------------
\* Properties of the state manager (checked under SpecState)
\* ------------------------------------------------------------------------
\* when an entry was put into the history
InsertedAt(e) == IF "completed_at" \in DOMAIN e THEN e.completed_at ELSE e.timestamp

\* the history stored in a state file
StoredHistory(f) == IF f.exists THEN f.state.history ELSE <<>>

\* the first n entries of h, all of them when h is shorter
FirstOf(h, n) == [i \in 1..(IF Len(h) < n THEN Len(h) ELSE n) |-> h[i]]

\* what the last call did to the history h0 of its state file, giving h
HistoryStep(h0, h, p0) ==
    /\ slast.op = "add_to_history" =>
           /\ h # <<>>
           /\ h[1] = [layers |-> <<"traditional">>, action |-> "update",
                      timestamp |-> now - 1]
           /\ Tail(h) = FirstOf(h0, 99)
    /\ (slast.op = "clear_pending" /\ p0 # NoPending) =>
           /\ h # <<>>
           /\ h[1].completed_at = now - 1
           /\ h[1].reason = p0.reason
           /\ h[1].timestamp = p0.timestamp
           /\ Tail(h) = FirstOf(h0, 99)
    /\ (slast.op = "clear_pending" /\ p0 = NoPending) => h = h0
    /\ slast.op \in {"set_pending", "add_memos_record"} => h = h0

\* C19: after any sequence of calls the stored history holds at most 100
\* entries, newest first: add_to_history and clear_pending of a pending update
\* put one entry at the front, entries beyond the 100th are dropped, and
\* the other calls leave the history as it was.
C19_HistoryLimit ==
    /\ \A d \in StateDirs :
           /\ Len(StoredHistory(state_files[d])) <= 100
           /\ \A i \in 1..(Len(StoredHistory(state_files[d])) - 1) :
                  InsertedAt(StoredHistory(state_files[d])[i])
                      > InsertedAt(StoredHistory(state_files[d])[i + 1])
    /\ slast.op # "none" =>
           HistoryStep(StoredHistory(sbefore[state_dir(managers[slast.mgr])]),
                       StoredHistory(state_files[state_dir(managers[slast.mgr])]),
                       get_pending(sbefore[state_dir(managers[slast.mgr])]))

\* add_to_history on a history of 100 entries: the new entry is at the front
\* and the oldest one is gone
C19_Witness ==
    /\ slast.op = "add_to_history"
    /\ Len(StoredHistory(sbefore[state_dir(managers[slast.mgr])])) = 100
    /\ Len(StoredHistory(state_files[state_dir(managers[slast.mgr])])) = 100
    /\ StoredHistory(state_files[state_dir(managers[slast.mgr])])[1].timestamp = now - 1
    /\ StoredHistory(state_files[state_dir(managers[slast.mgr])])[100]
           = StoredHistory(sbefore[state_dir(managers[slast.mgr])])[99]

\* what a manager reports about its project
Reports(f) ==
    [pending |-> get_pending(f),
     memos_records |-> get_pending_memos_records(f),
     history |-> get_history(f, HistoryLimit)]

\* C20: for two StateManagers of two different project directories, no call
\* on one changes what the other reports as pending update, pending MemOS
\* records or history.
C20_ProjectIsolation ==
    slast.op # "none" =>
        \A o \in 1..2 :
            o # slast.mgr =>
                Reports(state_files[state_dir(managers[o])])
                    = Reports(sbefore[state_dir(managers[o])])

\* ------------------------------------------------------------------------
\* Properties of the config file updater (checked under SpecClinerules)
\* ------------------------------------------------------------------------
\* how many sections of pattern p the rule file holds
SectionCount(f, p) ==
    Cardinality({i \in 1..Len(f.lines) : f.lines[i] = <<"#", "#", " ">> \o p})

\* the rule file documents pattern p: its text mentions it, whatever the case
Documents(f, p) ==
    f.exists /\ \E i \in 1..Len(f.lines) : Contains(Lower(f.lines[i]), Lower(p))

\* C27: update_clinerules never duplicates content: it appends a section
\* only for the requested patterns the rule file does not document yet (a
\* pattern that has a section has exactly one afterwards), and a repeated
\* call with the same patterns changes nothing.
C27_NoDuplicateSections ==
    (/\ cr_last.op = "update_clinerules"
     /\ cr_last.existing_content = EmptyText
     /\ ~cr_dry_run) =>
        /\ \A k \in 1..Len(cr_last.patterns) :
               SectionCount(cr_file, cr_last.patterns[k])
                   = IF Documents(cr_before, cr_last.patterns[k])
                     THEN SectionCount(cr_before, cr_last.patterns[k])
                     ELSE 1
        /\ (cr_prev = cr_last) => cr_file = cr_before

\* ------------------------------------------------------------------------
\* Properties of the MemOS client (checked under SpecMemos)
\* ------------------------------------------------------------------------
\* C21: while MemOS is unavailable, sync_offline_cache of a non-empty cache
\* terminates (its loop visits the records cached before the call, once
\* each), reports 0 synced records, and the cache holds exactly the records
\* it held before the call: none lost, none duplicated.
C21_SyncKeepsOfflineCache ==
    (/\ ~mc_client.available
     /\ mc_sync.pc # "idle"
     /\ mc_sync.start # <<>>) =>
        /\ mc_cache = mc_sync.start
        /\ mc_sync.iter <= Len(mc_sync.start) + 1
        /\ mc_sync.pc = "done" => mc_sync.result = 0 /\ mc_file = mc_sync.start

\* ------------------------------------------------------------------------
\* Properties of the state manager on foreign state files (checked under
\* SpecStateFile)
\* ------------------------------------------------------------------------
\* C22: a state file that holds an empty JSON object or text that is not
\* valid JSON reads as no pending update and an empty history, and no call
\* of is_pending, set_pending, clear_pending or add_to_history made
\* afterwards, in any order, raises.
C22_EmptyOrCorruptStateFile ==
    /\ nops = 0 =>
           \A d \in StateDirs :
               ~is_pending(state_files[d]) /\ get_history(state_files[d], 10) = <<>>
    /\ slast.op \in {"is_pending", "set_pending", "clear_pending", "add_to_history"}
           => ~slast.raised

\* ------------------------------------------------------------------------
\* Properties of the command line and the state it keeps (checked under
\* SpecCli)
\* ------------------------------------------------------------------------
\* the MemOS records of the first list are all in the second, in order
\* (a record keeps its content when it is marked as synced)
RecordsKept(old, new) ==
    /\ Len(old) <= Len(new)
    /\ \A i \in 1..Len(old) : new[i].content = old[i].content

\* C28: a MemOS record added with add_memos_record while an update is
\* pending stays retrievable through get_pending_memos_records until
\* clear_pending_memos removes it: no call of set_pending, clear_pending,
\* add_to_history, add_memos_record or mark_memos_record_synced, and no
\* run of the command update, drops a pending record.
C28_MemosRecordsKept ==
    slast.op \in {"set_pending", "clear_pending", "add_to_history",
                  "add_memos_record", "mark_memos_record_synced", "update"} =>
        \A d \in StateDirs :
            RecordsKept(get_pending_memos_records(sbefore[d]),
                        get_pending_memos_records(state_files[d]))

\* the state file of the project the commands run in
CliFile(files) == files[state_dir(managers[1])]

\* the layers of the pending update, none when nothing is pending
PendingLayers(f) == IF is_pending(f) THEN SetOf(get_pending(f).layers) ELSE {}

\* the last two calls: update completed every layer of a pending update
\* that check_pre_push had set, then check_pre_push ran again
CheckedAfterUpdate ==
    /\ slast.op = "check_pre_push"
    /\ sprev.op = "update"
    /\ sprev.updated # {}
    /\ ~is_pending(CliFile(sbefore))
    /\ get_history(CliFile(sbefore), 1)[1].reason = "Changes detected in 1 files"

\* C29: once update has completed every pending layer for a set of
\* unpushed changes (the pending update is cleared), check_pre_push run
\* again on the same unpushed changes sets no new pending update and exits
\* with 0.
C29_PushAllowedAfterUpdate ==
    CheckedAfterUpdate =>
        /\ slast.exit = 0
        /\ ~is_pending(CliFile(state_files))

\* C30: update only shrinks the pending layer set: afterwards the pending
\* layers are the previous ones minus the layers reported as updated; when
\* none remains the pending update is cleared and is the newest history
\* entry; when a requested layer is not pending, or no layer was updated,
\* the state file is as it was.
C30_UpdateShrinksPending ==
    slast.op = "update" =>
        /\ slast.updated \subseteq slast.args
        /\ PendingLayers(CliFile(state_files))
               = PendingLayers(CliFile(sbefore)) \ slast.updated
        /\ (slast.updated # {} /\ PendingLayers(CliFile(state_files)) = {}) =>
               /\ ~is_pending(CliFile(state_files))
               /\ get_history(CliFile(state_files), 1)
                      = <<Completed(get_pending(CliFile(sbefore)), now - 1)>>
               /\ get_history(CliFile(state_files), HistoryLimit)
                      = Take(<<Completed(get_pending(CliFile(sbefore)), now - 1)>>
                                 \o get_history(CliFile(sbefore), HistoryLimit),
                             HistoryLimit)
        /\ (slast.args \ PendingLayers(CliFile(sbefore)) # {} \/ slast.updated = {}) =>
               CliFile(state_files) = CliFile(sbefore)

\* update of one of two pending layers leaves the other one pending
C30_Witness ==
    /\ slast.op = "update"
    /\ slast.updated = {"traditional"}
    /\ PendingLayers(CliFile(sbefore)) = {"traditional", "config"}
    /\ PendingLayers(CliFile(state_files)) = {"config"}

====
